---- MODULE Spec2Model ----
(***************************************************************************)
(* A model of the flightfuel route store (routes/models.py, the save and   *)
(* delete endpoints of routes/views.py) and of the airport code resolver   *)
(* get_icao_code, and of the route planners of routes/routing.py           *)
(* (AirwayRouter, FlightRouter) with the CalculateRoute endpoint.          *)
(* Specifications: Spec (save, delete, restore endpoints), SpecSave,       *)
(* SpecCode, SpecRouter, SpecPlan, SpecTrip (soft delete and restore),     *)
(* SpecRace (create requests in flight together), SpecNames (routes made   *)
(* from suggestions), SpecRead (the read endpoints).                       *)
(*                                                                         *)
(* Strings are sequences of one-character strings, so that upper(),        *)
(* strip(), len() and isalpha() are computed and not assumed.  Python's    *)
(* None is the value NoneCode.  Distances are kept in hundredths of a      *)
(* nautical mile (the code rounds to 2 decimals); binary floating point    *)
(* rounding is not modelled.                                               *)
(***************************************************************************)
EXTENDS Integers, Sequences, FiniteSets, TLC

VARIABLES
    airports,   \* the airports table, in primary key order
    routes,     \* the routes table: id -> row
    nextId,     \* the next primary key of the routes table
    lastReq,    \* the request handled last
    lastResp,   \* the response to it
    obj,        \* a Route instance in memory (Route.save studied alone)
    pre,        \* that instance as it was before the last save()
    saves,      \* how many times save() ran on obj
    codeIn,     \* the argument of a get_icao_code call studied alone
    codeFlag,   \* its return_original_if_not_found
    codeOut,    \* its result
    codeDone,   \* whether the call has returned
    segments,   \* the airway_segments table: the rows of SegmentRows it holds
    activeWps,  \* the identifiers of the waypoints with is_active = True
    plan,       \* a planner call studied alone: its arguments and its result
    calls       \* the planning requests in flight, each with its own router

vars == <<airports, routes, nextId, lastReq, lastResp, obj, pre, saves,
          codeIn, codeFlag, codeOut, codeDone, segments, activeWps, plan, calls>>

----------------------------------------------------------------------------
(* Bounds of the model                                                     *)

MaxCodeLen == 4
MaxPad == 1

----------------------------------------------------------------------------
(* Characters and strings                                                  *)

UpperLetters == {"D", "H", "I", "M", "O", "R", "T"}
LowerLetters == {"d", "h", "i", "m", "o", "r", "t"}
Space == " "

\* str.upper() on one character
UpperChar(c) ==
    CASE c = "d" -> "D" [] c = "h" -> "H" [] c = "i" -> "I" [] c = "m" -> "M"
      [] c = "o" -> "O" [] c = "r" -> "R" [] c = "t" -> "T" [] OTHER -> c

Upper(s) == [k \in 1..Len(s) |-> UpperChar(s[k])]

RECURSIVE LStrip(_)
LStrip(s) == IF s # <<>> /\ Head(s) = Space THEN LStrip(Tail(s)) ELSE s

RECURSIVE RStrip(_)
RStrip(s) ==
    IF s # <<>> /\ s[Len(s)] = Space THEN RStrip(SubSeq(s, 1, Len(s) - 1)) ELSE s

Strip(s) == RStrip(LStrip(s))

\* str.isalpha(): non-empty and letters only
IsAlpha(s) ==
    /\ Len(s) > 0
    /\ \A k \in 1..Len(s) : s[k] \in UpperLetters \cup LowerLetters

NoneCode == <<"None">>

\* Python truthiness of an optional string
Truthy(s) == s # NoneCode /\ s # <<>>

RECURSIVE SeqsUpTo(_, _)
SeqsUpTo(S, n) ==
    IF n = 0 THEN {<<>>}
    ELSE LET shorter == SeqsUpTo(S, n - 1)
         IN  shorter \cup {Append(s, c) : s \in {t \in shorter : Len(t) = n - 1}, c \in S}

Pad(n) == [k \in 1..n |-> Space]

----------------------------------------------------------------------------
(* The airports directory                                                  *)

THR == <<"T", "H", "R">>
MHD == <<"M", "H", "D">>
OIII == <<"O", "I", "I", "I">>
OIMM == <<"O", "I", "M", "M">>

ApTHR == [iata_code |-> THR, icao_code |-> OIII]
ApMHD == [iata_code |-> MHD, icao_code |-> OIMM]
ApIOI == [iata_code |-> <<"I", "O", "I">>, icao_code |-> OIII]
ApOIO == [iata_code |-> <<"O", "I", "O">>, icao_code |-> <<>>]
ApIIO == [iata_code |-> <<"I", "I", "O">>, icao_code |-> <<"O", "I", "-", "1">>]
ApOOI == [iata_code |-> <<"O", "O", "I">>, icao_code |-> <<"I", "I", "I", "I">>]

DefaultAirports == <<ApTHR, ApMHD>>

\* Directories a resolver call is studied under: iata_code is unique
\* (airports/models.py:11), icao_code is not and may be blank or not a code.
Directories ==
    { <<>>, DefaultAirports, <<ApIOI>>, <<ApOIO, ApIOI>>, <<ApIIO, ApOOI>>,
      <<ApTHR, ApIOI, ApOIO>> }

Min(S) == CHOOSE x \in S : \A y \in S : x <= y

\* Airport.objects.filter(Q(icao_code=code) | Q(iata_code=code)).first()
AirportByIcaoOrIata(code) ==
    LET hits == {k \in 1..Len(airports) :
                    airports[k].icao_code = code \/ airports[k].iata_code = code}
    IN  IF hits = {} THEN 0 ELSE Min(hits)

\* Airport.objects.filter(iata_code=code).first()
AirportByIata(code) ==
    LET hits == {k \in 1..Len(airports) : airports[k].iata_code = code}
    IN  IF hits = {} THEN 0 ELSE Min(hits)

\* A resolver that forgets to upper-case its input.
get_icao_code_no_upper(code, return_original_if_not_found) ==
    IF ~Truthy(code) THEN NoneCode
    ELSE LET c == Strip(code)
         IN  IF Len(c) = 4 /\ IsAlpha(c)
             THEN LET a == AirportByIcaoOrIata(c)
                  IN  IF a # 0 THEN airports[a].icao_code ELSE c
             ELSE IF Len(c) = 3 /\ IsAlpha(c)
             THEN LET a == AirportByIata(c)
                  IN  IF a # 0 /\ Truthy(airports[a].icao_code)
                      THEN airports[a].icao_code
                      ELSE IF return_original_if_not_found THEN c ELSE NoneCode
             ELSE IF return_original_if_not_found THEN c ELSE NoneCode

\* A resolver that gives up on a 3-letter code it cannot resolve.
UnresolvedIataNone(code, return_original_if_not_found) == NoneCode

\* get_icao_code, lines 54-58: a 3-letter code with no usable airport row
UnresolvedIata(code, return_original_if_not_found) ==
    IF return_original_if_not_found THEN code ELSE NoneCode

get_icao_code(code, return_original_if_not_found) ==
    IF ~Truthy(code) THEN NoneCode
    ELSE LET c == Strip(Upper(code))
         IN  IF Len(c) = 4 /\ IsAlpha(c)
             THEN LET a == AirportByIcaoOrIata(c)
                  IN  IF a # 0 THEN airports[a].icao_code ELSE c
             ELSE IF Len(c) = 3 /\ IsAlpha(c)
             THEN LET a == AirportByIata(c)
                  IN  IF a # 0 /\ Truthy(airports[a].icao_code)
                      THEN airports[a].icao_code
                      ELSE UnresolvedIata(c, return_original_if_not_found)
             ELSE IF return_original_if_not_found THEN c ELSE NoneCode

----------------------------------------------------------------------------
(* The waypoints table and the Route model (routes/models.py)              *)

MaxWps == 3
MaxSaves == 2

DIM == <<"D", "I", "M">>
ROD == <<"R", "O", "D">>
TOT == <<"T", "O", "T">>

\* Waypoint rows: identifier (unique) and location (x, y) in degrees.
\* TOT is an identifier no row has.
KnownWaypoints == {OIII, OIMM, DIM, ROD}

WaypointLocation(id) ==
    CASE id = OIII -> <<0, 0>>
      [] id = DIM  -> <<3, 0>>
      [] id = OIMM -> <<3, 4>>
      [] id = ROD  -> <<0, 4>>

\* Waypoint.objects.filter(identifier=wp_id).first() finds a row
Resolves(id) == id \in KnownWaypoints

Abs(n) == IF n < 0 THEN 0 - n ELSE n

\* wp1.location.distance(wp2.location): the planar distance in degrees
\* (the rows above are chosen so that every pairwise distance is whole)
DistanceDeg(p, q) ==
    LET sq == (p[1] - q[1]) * (p[1] - q[1]) + (p[2] - q[2]) * (p[2] - q[2])
    IN  CHOOSE d \in 0..(Abs(p[1] - q[1]) + Abs(p[2] - q[2])) : d * d = sq

\* distance_deg * 60.11, in hundredths of a nautical mile
NmPerDegree100 == 6011
CruiseKnots == 450

NoLine == <<>>

NewRoute(name, departure, arrival, waypoints, coordinates, total_distance, flight_time) ==
    [ name |-> name, departure |-> departure, arrival |-> arrival,
      waypoints |-> waypoints, coordinates |-> coordinates,
      total_distance |-> total_distance, flight_time |-> flight_time,
      version |-> <<>>, is_active |-> TRUE ]

InList(x, s) == \E k \in 1..Len(s) : s[k] = x

\* the points of the waypoints that resolve, in list order
RECURSIVE OrderedPoints(_)
OrderedPoints(wps) ==
    IF wps = <<>> THEN <<>>
    ELSE IF Resolves(Head(wps))
         THEN <<WaypointLocation(Head(wps))>> \o OrderedPoints(Tail(wps))
         ELSE OrderedPoints(Tail(wps))

\* calculate_coordinates that builds a line from however many points resolve.
calculate_coordinates_any(r) ==
    IF Len(r.waypoints) < 2 THEN NoLine ELSE OrderedPoints(r.waypoints)

calculate_coordinates(r) ==
    IF Len(r.waypoints) < 2 THEN NoLine
    ELSE LET ordered_points == OrderedPoints(r.waypoints)
         IN  IF Len(ordered_points) >= 2 THEN ordered_points ELSE NoLine

\* the loop of calculate_distance over i in range(n - 1), from index i on
RECURSIVE LegSum(_, _)
LegSum(wps, i) ==
    IF i >= Len(wps) THEN 0
    ELSE (IF Resolves(wps[i]) /\ Resolves(wps[i + 1])
          THEN DistanceDeg(WaypointLocation(wps[i]), WaypointLocation(wps[i + 1]))
                 * NmPerDegree100
          ELSE 0) + LegSum(wps, i + 1)

calculate_distance(r) ==
    IF Len(r.waypoints) < 2 THEN 0 ELSE LegSum(r.waypoints, 1)

\* "HH:MM" is the pair <<HH, MM>>, "" the empty sequence
calculate_flight_time(r) ==
    IF r.total_distance <= 0 THEN <<>>
    ELSE LET per_hour == CruiseKnots * 100
         IN  << r.total_distance \div per_hour,
                ((r.total_distance % per_hour) * 60) \div per_hour >>

\* save(), lines 266-267
SetDefaultName(r) ==
    IF r.name = <<>> THEN [r EXCEPT !.name = r.departure \o <<"-">> \o r.arrival]
    ELSE r

\* save(), lines 270-273
SetCoordinates(r) ==
    IF r.waypoints # <<>> /\ Len(r.waypoints) >= 2
    THEN LET coords == calculate_coordinates(r)
         IN  IF coords # NoLine THEN [r EXCEPT !.coordinates = coords] ELSE r
    ELSE r

\* save(), lines 276-277
SetDistance(r) ==
    IF r.waypoints # <<>> /\ Len(r.waypoints) >= 2
    THEN [r EXCEPT !.total_distance = calculate_distance(r)]
    ELSE r

\* A save() that recomputes the flight time whenever the distance is positive.
SetFlightTimeAlways(r) ==
    IF r.total_distance > 0
    THEN [r EXCEPT !.flight_time = calculate_flight_time(r)]
    ELSE r

\* save(), lines 280-281
SetFlightTime(r) ==
    IF r.total_distance > 0 /\ r.flight_time = <<>>
    THEN [r EXCEPT !.flight_time = calculate_flight_time(r)]
    ELSE r

\* A save() that appends the departure instead of inserting it in front.
EnsureEndpointsAppended(r) ==
    IF r.waypoints # <<>>
    THEN LET w1 == IF ~InList(r.departure, r.waypoints)
                   THEN Append(r.waypoints, r.departure) ELSE r.waypoints
             w2 == IF ~InList(r.arrival, w1) THEN Append(w1, r.arrival) ELSE w1
         IN  [r EXCEPT !.waypoints = w2]
    ELSE r

\* save(), lines 284-288
EnsureEndpoints(r) ==
    IF r.waypoints # <<>>
    THEN LET w1 == IF ~InList(r.departure, r.waypoints)
                   THEN <<r.departure>> \o r.waypoints ELSE r.waypoints
             w2 == IF ~InList(r.arrival, w1) THEN Append(w1, r.arrival) ELSE w1
         IN  [r EXCEPT !.waypoints = w2]
    ELSE r

\* Route.save(): the instance as it is handed to the database
Route_save(r) ==
    EnsureEndpoints(SetFlightTime(SetDistance(SetCoordinates(SetDefaultName(r)))))

----------------------------------------------------------------------------
(* Airway segments and AirwayRouter (routes/routing.py)                    *)

MaxSegs == 3

MID == <<"M", "I", "D">>

\* Rows the airway_segments table may hold, in the order the queryset of
\* build_graph yields them: Meta.ordering is (airway, sequence), and airways
\* are ordered by identifier.  distance is a stored number of its own.
SegmentRows ==
    << [airway |-> "X", sequence |-> 1, from_waypoint |-> OIII, to_waypoint |-> MID,
        distance |-> 2],
       [airway |-> "X", sequence |-> 2, from_waypoint |-> DIM, to_waypoint |-> OIMM,
        distance |-> 1],
       [airway |-> "X", sequence |-> 3, from_waypoint |-> OIII, to_waypoint |-> DIM,
        distance |-> 3],
       [airway |-> "Y", sequence |-> 1, from_waypoint |-> MID, to_waypoint |-> OIII,
        distance |-> 1],
       [airway |-> "Y", sequence |-> 2, from_waypoint |-> MID, to_waypoint |-> DIM,
        distance |-> 1],
       [airway |-> "Y", sequence |-> 3, from_waypoint |-> OIII, to_waypoint |-> MID,
        distance |-> 2],
       [airway |-> "Y", sequence |-> 4, from_waypoint |-> OIII, to_waypoint |-> OIMM,
        distance |-> 4] >>

\* nx.Graph(): nodes, and one attribute record per unordered pair of nodes
EmptyGraph == [nodes |-> {}, edges |-> <<>>]

\* nx.Graph.add_edge(u, v, weight=..., airway=...): on an edge the graph
\* already has, the attributes given replace the ones it had
add_edge(g, u, v, weight, airway) ==
    [ nodes |-> g.nodes \cup {u, v},
      edges |-> [e \in DOMAIN g.edges \cup {{u, v}} |->
                    IF e = {u, v} THEN [weight |-> weight, airway |-> airway]
                    ELSE g.edges[e]] ]

RECURSIVE AddSegments(_, _, _)
AddSegments(g, k, rows) ==
    IF k > Len(SegmentRows) THEN g
    ELSE IF k \in rows
         THEN AddSegments(add_edge(g, SegmentRows[k].from_waypoint,
                                   SegmentRows[k].to_waypoint,
                                   SegmentRows[k].distance, SegmentRows[k].airway),
                          k + 1, rows)
         ELSE AddSegments(g, k + 1, rows)

\* AirwayRouter.build_graph over the rows the table holds
build_graph(rows) == AddSegments(EmptyGraph, 1, rows)

Neighbours(g, u) == {v \in g.nodes : {u, v} \in DOMAIN g.edges}

\* the weight the search reads from an edge if weight='weight' is left out.
EdgeWeightOne(g, u, v) == 1

\* the weight the search reads from an edge: weight='weight', line 39
EdgeWeight(g, u, v) == g.edges[{u, v}].weight

\* nx.shortest_path(..., weight='weight'), Dijkstra's algorithm from source:
\* dist is known for the nodes reached so far, done are the nodes whose
\* distance is final
RECURSIVE DijkstraLoop(_, _, _)
DijkstraLoop(g, dist, done) ==
    LET open == DOMAIN dist \ done
    IN  IF open = {} THEN dist
        ELSE LET u == CHOOSE n \in open : \A m \in open : dist[n] <= dist[m]
                 near == Neighbours(g, u) \ done
                 Through(v) == dist[u] + EdgeWeight(g, u, v)
                 relaxed == [v \in DOMAIN dist \cup near |->
                               IF v \in near
                               THEN IF v \in DOMAIN dist /\ dist[v] <= Through(v)
                                    THEN dist[v] ELSE Through(v)
                               ELSE dist[v]]
             IN  DijkstraLoop(g, relaxed, done \cup {u})

Dijkstra(g, source) == DijkstraLoop(g, [n \in {source} |-> 0], {})

\* the paths the search can hand back: built from the target back to the
\* source along edges on which the distances found are exact.  Which of
\* several such paths it returns depends on the order the library visits the
\* nodes in, so all of them are kept.
RECURSIVE PathsBack(_, _, _, _)
PathsBack(g, dist, source, path) ==
    LET v == Head(path)
    IN  IF v = source THEN {path}
        ELSE UNION { PathsBack(g, dist, source, <<u>> \o path) :
                       u \in {n \in Neighbours(g, v) \cap DOMAIN dist :
                                /\ ~InList(n, path)
                                /\ dist[n] + EdgeWeight(g, n, v) = dist[v]} }

RECURSIVE total_distance(_, _)
total_distance(g, path) ==
    IF Len(path) < 2 THEN 0
    ELSE g.edges[{path[1], path[2]}].weight + total_distance(g, Tail(path))

\* find_route, lines 47-52, that lists the airway of every edge.
RECURSIVE airways_used_all(_, _)
airways_used_all(g, path) ==
    IF Len(path) < 2 THEN <<>>
    ELSE <<g.edges[{path[1], path[2]}].airway>> \o airways_used_all(g, Tail(path))

\* find_route, lines 47-52
RECURSIVE airways_used_from(_, _, _)
airways_used_from(g, path, used) ==
    IF Len(path) < 2 THEN used
    ELSE LET airway_id == g.edges[{path[1], path[2]}].airway
         IN  airways_used_from(g, Tail(path),
                               IF InList(airway_id, used) THEN used
                               ELSE Append(used, airway_id))

airways_used(g, path) == airways_used_from(g, path, <<>>)

NoRoute ==
    [ found |-> FALSE, waypoints |-> <<>>, total_distance |-> 0,
      airways_used |-> <<>>, segment_count |-> 0 ]

RouteResult(g, path) ==
    [ found |-> TRUE, waypoints |-> path, total_distance |-> total_distance(g, path),
      airways_used |-> airways_used(g, path), segment_count |-> Len(path) - 1 ]

\* find_route without the test of line 35.
InGraphAny(g, n) == TRUE

\* find_route, line 35: departure_iata in self.graph
InGraph(g, n) == n \in g.nodes

\* AirwayRouter.find_route: the results it can return (NoRoute is None)
find_route(g, departure_iata, arrival_iata) ==
    IF ~InGraph(g, departure_iata) \/ ~InGraph(g, arrival_iata) THEN {NoRoute}
    ELSE LET dist == Dijkstra(g, departure_iata)
         IN  IF arrival_iata \notin DOMAIN dist THEN {NoRoute}
             ELSE { RouteResult(g, path) :
                      path \in PathsBack(g, dist, departure_iata, <<arrival_iata>>) }

----------------------------------------------------------------------------
(* Waypoints and FlightRouter (routes/routing.py)                          *)
(*                                                                         *)
(* Planner positions are in thousandths of a degree, so that two fixes can *)
(* differ by less than the tenth of a nautical mile the planner rounds to. *)
(* A distance in degrees times 60.11 is then a whole number of             *)
(* hundred-thousandths of a nautical mile; a rounded distance is a whole   *)
(* number of tenths.                                                       *)

DOT == <<"D", "O", "T">>
HOT == <<"H", "O", "T">>
RIM == <<"R", "I", "M">>
MIE == <<"M", "I", "E">>

\* The waypoints table of a planner call, in identifier order (the order
\* Waypoint.objects yields).  OIII-DIM is the line the corridor is laid on;
\* MID and MIE are two fixes on one point, halfway along it.
WaypointRows ==
    << [identifier |-> DIM,  location |-> <<3000, 0>>],
       [identifier |-> DOT,  location |-> <<0, 4>>],
       [identifier |-> HOT,  location |-> <<4, 3>>],
       [identifier |-> MID,  location |-> <<1500, 0>>],
       [identifier |-> MIE,  location |-> <<1500, 0>>],
       [identifier |-> OIII, location |-> <<0, 0>>],
       [identifier |-> OIMM, location |-> <<3000, 4000>>],
       [identifier |-> RIM,  location |-> <<1500, 1125>>] >>

WaypointIds == {WaypointRows[k].identifier : k \in 1..Len(WaypointRows)}

\* Waypoint.objects.get(identifier=...).location
Location(id) ==
    WaypointRows[CHOOSE k \in 1..Len(WaypointRows) : WaypointRows[k].identifier = id].location

\* a point argument that is None
NoPoint == <<>>

RECURSIVE SqrtBetween(_, _, _)
SqrtBetween(n, lo, hi) ==
    IF lo >= hi THEN lo
    ELSE LET mid == (lo + hi + 1) \div 2
         IN  IF mid * mid <= n THEN SqrtBetween(n, mid, hi)
             ELSE SqrtBetween(n, lo, mid - 1)

\* Point.distance(Point): planar, in thousandths of a degree (the rows above
\* are chosen so that every distance the planner takes is whole)
PointDistance(p, q) ==
    LET dx == Abs(p[1] - q[1])
        dy == Abs(p[2] - q[2])
    IN  SqrtBetween(dx * dx + dy * dy, 0, dx + dy)

Between(x, a, b) == (a <= x /\ x <= b) \/ (b <= x /\ x <= a)

\* Point.distance(LineString([a, b])): the distance to the segment a-b, for a
\* segment that is a point or runs along a parallel or a meridian
LineDistance(p, a, b) ==
    IF a = b THEN PointDistance(p, a)
    ELSE IF a[2] = b[2] /\ Between(p[1], a[1], b[1]) THEN Abs(p[2] - a[2])
    ELSE IF a[1] = b[1] /\ Between(p[2], a[2], b[2]) THEN Abs(p[1] - a[1])
    ELSE Min({PointDistance(p, a), PointDistance(p, b)})

\* 50 nautical miles, in hundred-thousandths and in tenths
KeepOutNm == 50
KeepOut == KeepOutNm * 100000
KeepOutTenths == KeepOutNm * 10

DirectKnots == 480
AirwayKnots == 460
ViaKnots == 470
HybridKnots == 475

\* round(x, 1) of a distance in hundred-thousandths: tenths of a mile
Round1(x) == (x + 5000) \div 10000

\* round(num / den) for whole num, den
RoundDiv(num, den) == (2 * num + den) \div (2 * den)

\* round(distance_nm / knots * 60), distance in hundred-thousandths
FlightMinutes(x, knots) == RoundDiv(x * 3, knots * 5000)

\* find_nearby_waypoints that leaves out a fix lying exactly max away.
WithinCorridorStrict(distance_nm, max_distance_nm) == distance_nm < max_distance_nm

\* find_nearby_waypoints, line 93
WithinCorridor(distance_nm, max_distance_nm) == distance_nm <= max_distance_nm

\* find_nearby_waypoints, lines 88-101: the record of the k-th waypoint row
NearbyPoint(k, point1, point2) ==
    [ waypoint |-> WaypointRows[k].identifier,
      distance_to_line_nm |->
          Round1(LineDistance(WaypointRows[k].location, point1, point2) * NmPerDegree100),
      distance_to_start_nm |->
          Round1(PointDistance(WaypointRows[k].location, point1) * NmPerDegree100) ]

RECURSIVE NearbyFrom(_, _, _, _)
NearbyFrom(k, point1, point2, max_distance_nm) ==
    IF k > Len(WaypointRows) THEN <<>>
    ELSE LET rest == NearbyFrom(k + 1, point1, point2, max_distance_nm)
         IN  IF /\ WaypointRows[k].identifier \in activeWps
                /\ WithinCorridor(LineDistance(WaypointRows[k].location, point1, point2)
                                    * NmPerDegree100, max_distance_nm)
             THEN <<NearbyPoint(k, point1, point2)>> \o rest
             ELSE rest

\* the sort key of line 105, compared as Python compares tuples
KeyLess(x, y) ==
    \/ x.distance_to_line_nm < y.distance_to_line_nm
    \/ /\ x.distance_to_line_nm = y.distance_to_line_nm
       /\ x.distance_to_start_nm < y.distance_to_start_nm

\* sorted() is stable: x goes after every element that is not greater
RECURSIVE InsertSorted(_, _)
InsertSorted(x, s) ==
    IF s = <<>> THEN <<x>>
    ELSE IF KeyLess(x, Head(s)) THEN <<x>> \o s
    ELSE <<Head(s)>> \o InsertSorted(x, Tail(s))

RECURSIVE Sorted(_)
Sorted(s) ==
    IF s = <<>> THEN <<>>
    ELSE InsertSorted(s[Len(s)], Sorted(SubSeq(s, 1, Len(s) - 1)))

\* FlightRouter.find_nearby_waypoints; max_distance_nm in hundred-thousandths
find_nearby_waypoints(point1, point2, max_distance_nm) ==
    IF point1 = NoPoint \/ point2 = NoPoint THEN <<>>
    ELSE Sorted(NearbyFrom(1, point1, point2, max_distance_nm))

\* the sum of the leg distances of a list of waypoints, lines 172-176, 207-211
RECURSIVE LegsNm(_)
LegsNm(ids) ==
    IF Len(ids) < 2 THEN 0
    ELSE PointDistance(Location(ids[1]), Location(ids[2])) * NmPerDegree100
           + LegsNm(Tail(ids))

Suggestion(type, waypoints, total_distance_nm, flight_time_min) ==
    [ type |-> type, waypoints |-> waypoints,
      total_distance_nm |-> total_distance_nm, flight_time_min |-> flight_time_min ]

\* suggest_routes, lines 119-132
DirectSuggestion(departure_id, arrival_id) ==
    LET direct_distance_nm == LegsNm(<<departure_id, arrival_id>>)
    IN  <<Suggestion("DIRECT", <<departure_id, arrival_id>>, Round1(direct_distance_nm),
                     FlightMinutes(direct_distance_nm, DirectKnots))>>

\* suggest_routes that never offers the airway route.
AirwaySuggestionNever(airway_route) == <<>>

\* suggest_routes, lines 136-147; the stored segment distances are whole miles
AirwaySuggestion(airway_route) ==
    IF airway_route.found
    THEN <<Suggestion("AIRWAY_NETWORK", airway_route.waypoints,
                      airway_route.total_distance * 10,
                      RoundDiv(airway_route.total_distance * 60, AirwayKnots))>>
    ELSE <<>>

\* suggest_routes, lines 159-166: the first two fixes away from both ends
RECURSIVE Selected(_, _, _)
Selected(nearby, direct_distance_nm, selected) ==
    IF nearby = <<>> \/ Len(selected) >= 2 THEN selected
    ELSE LET point == Head(nearby)
         IN  IF /\ point.distance_to_start_nm > KeepOutTenths
                /\ point.distance_to_start_nm * 10000 < direct_distance_nm - KeepOut
             THEN Selected(Tail(nearby), direct_distance_nm,
                           Append(selected, point.waypoint))
             ELSE Selected(Tail(nearby), direct_distance_nm, selected)

\* suggest_routes that takes the first two fixes of the corridor, near an end
\* or not.
ViaSuggestionAnyFix(departure_id, arrival_id, nearby) ==
    LET selected == [k \in 1..Min({2, Len(nearby)}) |-> nearby[k].waypoint]
        waypoint_ids == <<departure_id>> \o selected \o <<arrival_id>>
    IN  IF selected # <<>>
        THEN <<Suggestion("VIA_WAYPOINTS", waypoint_ids, Round1(LegsNm(waypoint_ids)),
                          FlightMinutes(LegsNm(waypoint_ids), ViaKnots))>>
        ELSE <<>>

\* suggest_routes, lines 157-188
ViaSuggestion(departure_id, arrival_id, nearby) ==
    LET selected == Selected(nearby, LegsNm(<<departure_id, arrival_id>>), <<>>)
        waypoint_ids == <<departure_id>> \o selected \o <<arrival_id>>
    IN  IF selected # <<>>
        THEN <<Suggestion("VIA_WAYPOINTS", waypoint_ids, Round1(LegsNm(waypoint_ids)),
                          FlightMinutes(LegsNm(waypoint_ids), ViaKnots))>>
        ELSE <<>>

\* suggest_routes, lines 193-201: twice the distance of a fix from the middle,
\* and the fix the loop ends with (<<>> is None); best is the fix held so far
MidDiff2(point, direct_distance_nm) ==
    Abs(2 * point.distance_to_start_nm * 10000 - direct_distance_nm)

RECURSIVE ClosestToMid(_, _, _)
ClosestToMid(nearby, direct_distance_nm, best) ==
    IF nearby = <<>> THEN best
    ELSE LET point == Head(nearby)
         IN  IF /\ best = <<>> \/ MidDiff2(point, direct_distance_nm)
                                    < MidDiff2(best[1], direct_distance_nm)
                /\ point.distance_to_line_nm < KeepOutTenths
             THEN ClosestToMid(Tail(nearby), direct_distance_nm, <<point>>)
             ELSE ClosestToMid(Tail(nearby), direct_distance_nm, best)

\* suggest_routes whose loop replaces the fix it holds on a tie (<= for <).
RECURSIVE ClosestToMidLast(_, _, _)
ClosestToMidLast(nearby, direct_distance_nm, best) ==
    IF nearby = <<>> THEN best
    ELSE LET point == Head(nearby)
         IN  IF /\ best = <<>> \/ MidDiff2(point, direct_distance_nm)
                                    <= MidDiff2(best[1], direct_distance_nm)
                /\ point.distance_to_line_nm < KeepOutTenths
             THEN ClosestToMidLast(Tail(nearby), direct_distance_nm, <<point>>)
             ELSE ClosestToMidLast(Tail(nearby), direct_distance_nm, best)

HybridSuggestionLastOfTie(departure_id, arrival_id, nearby) ==
    LET closest_to_mid ==
            ClosestToMidLast(nearby, LegsNm(<<departure_id, arrival_id>>), <<>>)
        waypoint_ids == <<departure_id, closest_to_mid[1].waypoint, arrival_id>>
    IN  IF closest_to_mid # <<>>
        THEN <<Suggestion("HYBRID", waypoint_ids, Round1(LegsNm(waypoint_ids)),
                          FlightMinutes(LegsNm(waypoint_ids), HybridKnots))>>
        ELSE <<>>

\* suggest_routes, lines 191-223
HybridSuggestion(departure_id, arrival_id, nearby) ==
    LET closest_to_mid == ClosestToMid(nearby, LegsNm(<<departure_id, arrival_id>>), <<>>)
        waypoint_ids == <<departure_id, closest_to_mid[1].waypoint, arrival_id>>
    IN  IF closest_to_mid # <<>>
        THEN <<Suggestion("HYBRID", waypoint_ids, Round1(LegsNm(waypoint_ids)),
                          FlightMinutes(LegsNm(waypoint_ids), HybridKnots))>>
        ELSE <<>>

NoSuggestions ==
    [ error |-> FALSE, suggestions |-> <<>>, direct_distance_nm |-> 0,
      nearby_waypoints_count |-> 0, invoked |-> <<>> ]

WaypointError(invoked) == [NoSuggestions EXCEPT !.error = TRUE, !.invoked = invoked]

\* suggest_routes that plans before it looks the two waypoints up.
WaypointErrorLate == WaypointError(<<"find_route", "find_nearby_waypoints">>)

\* suggest_routes, lines 111-115: Waypoint.DoesNotExist
WaypointErrorAtOnce == WaypointError(<<>>)

\* FlightRouter.suggest_routes on the router's graph g: the results it can
\* return.  invoked lists the planner methods it has called by then.
suggest_routes(g, departure_id, arrival_id, max_deviation_nm) ==
    IF departure_id \notin WaypointIds \/ arrival_id \notin WaypointIds
    THEN {WaypointErrorAtOnce}
    ELSE LET nearby == find_nearby_waypoints(Location(departure_id),
                                             Location(arrival_id), max_deviation_nm)
         IN  { [ error |-> FALSE,
                 suggestions |->
                     DirectSuggestion(departure_id, arrival_id)
                       \o AirwaySuggestion(airway_route)
                       \o ViaSuggestion(departure_id, arrival_id, nearby)
                       \o HybridSuggestion(departure_id, arrival_id, nearby),
                 direct_distance_nm |-> Round1(LegsNm(<<departure_id, arrival_id>>)),
                 nearby_waypoints_count |-> Len(nearby),
                 invoked |-> <<"find_route", "find_nearby_waypoints">> ] :
               airway_route \in find_route(g, departure_id, arrival_id) }

----------------------------------------------------------------------------
(* Values of the variables a specification does not use                    *)

NoReq == [op |-> "none", action |-> "none", decision |-> "none", route_id |-> 0]
NoResp == [status |-> "none", http |-> 0, reason |-> "none", route_id |-> 0]
IdleRoute == NewRoute(<<>>, OIII, OIMM, <<>>, NoLine, 0, <<>>)

StoreIdle ==
    /\ routes = <<>>
    /\ nextId = 1
    /\ lastReq = NoReq
    /\ lastResp = NoResp

ObjIdle == obj = IdleRoute /\ pre = IdleRoute /\ saves = 0

CodeIdle ==
    /\ codeIn = NoneCode
    /\ codeFlag = TRUE
    /\ codeOut = NoneCode
    /\ codeDone = FALSE

NoPlan ==
    [ op |-> "none", departure |-> <<>>, arrival |-> <<>>, point1 |-> NoPoint,
      point2 |-> NoPoint, max |-> 0, graph |-> EmptyGraph, route |-> NoRoute,
      nearby |-> <<>>, result |-> NoSuggestions, done |-> FALSE ]

Requests == {"r1", "r2"}

NoCall ==
    [ stage |-> "idle", op |-> "none", departure |-> <<>>, arrival |-> <<>>,
      seen |-> {}, graph |-> EmptyGraph, http |-> 0, route |-> NoRoute,
      result |-> NoSuggestions ]

PlanIdle ==
    /\ segments = {}
    /\ activeWps = WaypointIds
    /\ plan = NoPlan
    /\ calls = [r \in Requests |-> NoCall]

storeVars == <<routes, nextId, lastReq, lastResp>>
planVars == <<segments, activeWps, plan, calls>>
objVars == <<obj, pre, saves>>
codeVars == <<codeIn, codeFlag, codeOut, codeDone>>

----------------------------------------------------------------------------
(* get_icao_code studied alone: one call on any input, any directory       *)

EnumChars == {"O", "I", "o", "1"}

CodeInputs ==
    {NoneCode}
      \cup {Pad(l) \o core \o Pad(r) :
              l \in 0..MaxPad, r \in 0..MaxPad, core \in SeqsUpTo(EnumChars, MaxCodeLen)}
      \cup {Pad(l) \o core \o Pad(r) :
              l \in 0..MaxPad, r \in 0..MaxPad,
              core \in {THR, <<"t", "h", "r">>, <<"T", "h", "R">>, <<"m", "h", "d">>,
                        <<"o", "i", "m", "m">>, <<"T", "H", "R", "R", "R">>}}

InitCode ==
    /\ airports \in Directories
    /\ codeIn \in CodeInputs
    /\ codeFlag \in BOOLEAN
    /\ codeOut = NoneCode
    /\ codeDone = FALSE
    /\ StoreIdle
    /\ ObjIdle
    /\ PlanIdle

ResolveCode ==
    /\ ~codeDone
    /\ codeOut' = get_icao_code(codeIn, codeFlag)
    /\ codeDone' = TRUE
    /\ UNCHANGED <<airports, codeIn, codeFlag, storeVars, objVars, planVars>>

NextCode == ResolveCode

SpecCode == InitCode /\ [][NextCode]_vars

----------------------------------------------------------------------------
(* Route.save studied alone: an instance with any field values, saved and  *)
(* saved again                                                             *)

SaveIds == {OIII, OIMM, DIM, TOT}

RouteInputs ==
    { NewRoute(n, d, a, w, c, t, f) :
        n \in {<<>>, <<"R", "T">>},
        d \in {OIII, TOT},
        a \in {OIMM, OIII},
        w \in SeqsUpTo(SaveIds, MaxWps),
        c \in {NoLine, << <<9, 9>>, <<8, 8>> >>},
        t \in {0, 52000},
        f \in {<<>>, <<1, 30>>} }

InitSave ==
    /\ obj \in RouteInputs
    /\ pre = obj
    /\ saves = 0
    /\ airports = DefaultAirports
    /\ StoreIdle
    /\ CodeIdle
    /\ PlanIdle

SaveInstance ==
    /\ saves < MaxSaves
    /\ pre' = obj
    /\ obj' = Route_save(obj)
    /\ saves' = saves + 1
    /\ UNCHANGED <<airports, storeVars, codeVars, planVars>>

NextSave == SaveInstance

SpecSave == InitSave /\ [][NextSave]_vars

----------------------------------------------------------------------------
(* The routes table and the endpoints that write it (routes/views.py)      *)

MaxRoutes == 2

RT == <<"R", "T">>
BadCode == <<"O", "1">>

\* the request fields the endpoints are driven with
ReqDepartures == {THR, BadCode}
ReqArrivals == {OIMM}
ReqNames == {<<>>, RT}
ReqWaypointLists == {<<DIM, ROD>>}
FullPayload ==
    [fields |-> {"departure", "arrival", "coordinates"},
     coordinates |-> << <<1, 1>>, <<2, 2>> >>]

\* (payload, departure, arrival, name): every combination of the fields above
\* with a well-formed payload
FullBodies == {FullPayload} \X ReqDepartures \X ReqArrivals \X ReqNames

\* the requests the handlers turn away before they read the action: a payload
\* a point short, one without its coordinates field, an empty arrival
RejectedBodies ==
    { << [fields |-> {"departure", "arrival", "coordinates"},
          coordinates |-> << <<1, 1>>, <<5>> >>], THR, OIMM, RT >>,
      << [fields |-> {"departure", "arrival"}, coordinates |-> <<>>],
         THR, OIMM, RT >>,
      << FullPayload, THR, <<>>, RT >> }
ReqBodies == FullBodies \cup RejectedBodies

\* (body, mode) of the requests of an endpoint: every well-formed body with
\* every mode, the bodies turned away with the one mode given
Requested(modes, mode) == (FullBodies \X modes) \cup (RejectedBodies \X {mode})
ReqIds == 1..MaxRoutes

Resp(status, http, reason, route_id) ==
    [status |-> status, http |-> http, reason |-> reason, route_id |-> route_id]

\* a handler's effect: the table, the id sequence and the response
Result(rows, next, resp) == [routes |-> rows, nextId |-> next, resp |-> resp]
NoWrite(resp) == Result(routes, nextId, resp)

Max(S) == CHOOSE x \in S : \A y \in S : x >= y

\* A table that declares no uniqueness constraint.
UniqueViolationNone(id, row) == FALSE

\* Meta.constraints: unique (departure, arrival, name, version) among the rows
\* with is_active = True; id is the row being written
UniqueViolation(id, row) ==
    /\ row.is_active
    /\ \E j \in DOMAIN routes \ {id} :
          /\ routes[j].is_active
          /\ routes[j].departure = row.departure
          /\ routes[j].arrival = row.arrival
          /\ routes[j].name = row.name
          /\ routes[j].version = row.version

\* CharField(max_length=4) on departure and arrival
TooLong(row) == Len(row.departure) > 4 \/ Len(row.arrival) > 4

\* what the database answers to the insert or update of a row
DbError(id, row) ==
    IF TooLong(row) THEN "DataError"
    ELSE IF UniqueViolation(id, row) THEN "IntegrityError"
    ELSE "ok"

\* the handlers' except Exception: status 400, nothing written
Failed(err) == NoWrite(Resp("error", 400, err, 0))

\* Route.objects.create(...): save() on a new instance, then the insert
CreateRoute(name, departure, arrival, data, line_coords, status) ==
    LET row == Route_save(NewRoute(name, departure, arrival, data.waypoints,
                                   line_coords, data.total_distance, data.flight_time))
        err == DbError(nextId, row)
    IN  IF err # "ok" THEN Failed(err)
        ELSE Result([id \in DOMAIN routes \cup {nextId} |->
                        IF id = nextId THEN row ELSE routes[id]],
                    nextId + 1, Resp("success", 200, status, nextId))

\* route.save() on a loaded row: save(), then the update
UpdateRoute(id, changed, status) ==
    LET row == Route_save(changed)
        err == DbError(id, row)
    IN  IF err # "ok" THEN Failed(err)
        ELSE Result([routes EXCEPT ![id] = row], nextId, Resp("success", 200, status, id))

\* route.delete()
DeleteRow(id, status) ==
    Result([j \in DOMAIN routes \ {id} |-> routes[j]], nextId,
           Resp("success", 200, status, id))

\* the loop over data['coordinates']: entries with 2 or more numbers
ParseCoordinates(coords) ==
    LET kept == SelectSeq(coords, LAMBDA c : Len(c) >= 2)
    IN  [k \in 1..Len(kept) |-> <<kept[k][1], kept[k][2]>>]

\* Route.objects.filter(departure=..., arrival=...): active or not
ExistingRoutes(departure, arrival) ==
    {j \in DOMAIN routes : routes[j].departure = departure /\ routes[j].arrival = arrival}

DefaultName(departure, arrival) == departure \o <<"-">> \o arrival

\* an overwrite that takes the name the request carries.
OverwriteRouteRenamed(data, departure_icao, arrival_icao, line_coords, status) ==
    IF data.route_id \notin DOMAIN routes
    THEN NoWrite(Resp("error", 404, "not_found", data.route_id))
    ELSE UpdateRoute(data.route_id,
                     [routes[data.route_id] EXCEPT
                        !.name = Strip(data.name),
                        !.departure = departure_icao,
                        !.arrival = arrival_icao,
                        !.waypoints = data.waypoints,
                        !.coordinates = line_coords,
                        !.total_distance = data.total_distance,
                        !.flight_time = data.flight_time],
                     status)

\* the overwrite branch of SaveRouteAPI and EnhancedSaveRouteAPI
OverwriteRoute(data, departure_icao, arrival_icao, line_coords, status) ==
    IF data.route_id \notin DOMAIN routes
    THEN NoWrite(Resp("error", 404, "not_found", data.route_id))
    ELSE UpdateRoute(data.route_id,
                     [routes[data.route_id] EXCEPT
                        !.departure = departure_icao,
                        !.arrival = arrival_icao,
                        !.waypoints = data.waypoints,
                        !.coordinates = line_coords,
                        !.total_distance = data.total_distance,
                        !.flight_time = data.flight_time],
                     status)

\* the 409 answer: the newest route of the pair is reported
Conflict(departure, arrival) ==
    NoWrite(Resp("conflict", 409, "exists", Max(ExistingRoutes(departure, arrival))))

SaveRouteAPI_post(data) ==
    IF ~({"departure", "arrival", "coordinates"} \subseteq data.fields)
    THEN NoWrite(Resp("error", 400, "missing_field", 0))
    ELSE LET line_coords == ParseCoordinates(data.coordinates)
             departure_icao == get_icao_code(data.departure, TRUE)
             arrival_icao == get_icao_code(data.arrival, TRUE)
             route_name == Strip(data.name)
         IN  IF Len(line_coords) < 2
             THEN NoWrite(Resp("error", 400, "min_points", 0))
             ELSE IF ~Truthy(departure_icao) \/ ~Truthy(arrival_icao)
             THEN NoWrite(Resp("error", 400, "invalid_codes", 0))
             ELSE IF data.action = "overwrite" /\ data.route_id # 0
             THEN OverwriteRoute(data, departure_icao, arrival_icao, line_coords,
                                 "overwritten")
             ELSE IF ExistingRoutes(departure_icao, arrival_icao) # {}
             THEN Conflict(departure_icao, arrival_icao)
             ELSE CreateRoute(IF route_name = <<>>
                              THEN DefaultName(departure_icao, arrival_icao)
                              ELSE route_name,
                              departure_icao, arrival_icao, data, line_coords, "created")

EnhancedSaveRouteAPI_post(data) ==
    IF ~({"departure", "arrival", "coordinates"} \subseteq data.fields)
    THEN NoWrite(Resp("error", 400, "missing_field", 0))
    ELSE LET line_coords == ParseCoordinates(data.coordinates)
             departure_icao == get_icao_code(data.departure, TRUE)
             arrival_icao == get_icao_code(data.arrival, TRUE)
             route_name == Strip(data.name)
             new_name == IF route_name = <<>>
                         THEN DefaultName(departure_icao, arrival_icao)
                         ELSE route_name
         IN  IF Len(line_coords) < 2
             THEN NoWrite(Resp("error", 400, "min_points", 0))
             ELSE IF ~Truthy(departure_icao) \/ ~Truthy(arrival_icao)
             THEN NoWrite(Resp("error", 400, "invalid_codes", 0))
             ELSE IF data.decision = "cancel"
             THEN NoWrite(Resp("cancelled", 200, "cancelled", 0))
             ELSE IF data.action = "overwrite" /\ data.route_id # 0
             THEN OverwriteRoute(data, departure_icao, arrival_icao, line_coords,
                                 "overwrite")
             ELSE IF data.action = "save_as" \/ data.decision = "save_as_new"
             THEN CreateRoute(new_name, departure_icao, arrival_icao, data, line_coords,
                              "save_as_new")
             ELSE IF ExistingRoutes(departure_icao, arrival_icao) # {}
             THEN Conflict(departure_icao, arrival_icao)
             ELSE CreateRoute(new_name, departure_icao, arrival_icao, data, line_coords,
                              "created_new")

SaveAsRouteAPI_post(data) ==
    IF ~({"departure", "arrival", "coordinates"} \subseteq data.fields)
    THEN NoWrite(Resp("error", 400, "missing_field", 0))
    ELSE LET line_coords == ParseCoordinates(data.coordinates)
             departure_icao == get_icao_code(data.departure, TRUE)
             arrival_icao == get_icao_code(data.arrival, TRUE)
             custom_name == Strip(data.name)
         IN  IF Len(line_coords) < 2
             THEN NoWrite(Resp("error", 400, "min_points", 0))
             ELSE IF ~Truthy(departure_icao) \/ ~Truthy(arrival_icao)
             THEN NoWrite(Resp("error", 400, "invalid_codes", 0))
             ELSE CreateRoute(IF custom_name = <<>>
                              THEN DefaultName(departure_icao, arrival_icao)
                              ELSE custom_name,
                              departure_icao, arrival_icao, data, line_coords, "saved_as")

AdvancedDeleteRouteAPI_delete(route_id, delete_type, confirm) ==
    IF ~confirm
    THEN NoWrite(Resp("confirmation_required", 400, "confirm", route_id))
    ELSE IF route_id \notin DOMAIN routes
    THEN NoWrite(Resp("error", 404, "not_found", route_id))
    ELSE IF delete_type = "hard"
    THEN DeleteRow(route_id, "hard_deleted")
    ELSE UpdateRoute(route_id, [routes[route_id] EXCEPT !.is_active = FALSE],
                     "soft_deleted")

\* A restore the database lets through whatever the other rows hold.
RestoreUnchecked(route_id) ==
    IF route_id \notin DOMAIN routes
    THEN NoWrite(Resp("error", 404, "not_found", route_id))
    ELSE IF routes[route_id].is_active
    THEN NoWrite(Resp("info", 200, "already_active", route_id))
    ELSE Result([routes EXCEPT
                    ![route_id] = Route_save([routes[route_id] EXCEPT !.is_active = TRUE])],
                nextId, Resp("success", 200, "restored", route_id))

RestoreRouteAPI_post(route_id) ==
    IF route_id \notin DOMAIN routes
    THEN NoWrite(Resp("error", 404, "not_found", route_id))
    ELSE IF routes[route_id].is_active
    THEN NoWrite(Resp("info", 200, "already_active", route_id))
    ELSE UpdateRoute(route_id, [routes[route_id] EXCEPT !.is_active = TRUE], "restored")

DeleteRouteAPI_delete(route_id) ==
    IF route_id \notin DOMAIN routes
    THEN NoWrite(Resp("error", 404, "not_found", route_id))
    ELSE DeleteRow(route_id, "deleted")

\* the body of a save request
SaveData(fields, departure, arrival, coordinates, name, waypoints, action, decision, route_id) ==
    [ fields |-> fields, departure |-> departure, arrival |-> arrival,
      coordinates |-> coordinates, name |-> name, waypoints |-> waypoints,
      total_distance |-> 52000, flight_time |-> <<>>,
      action |-> action, decision |-> decision, route_id |-> route_id ]

\* what is kept of a request: the endpoint, its action and the id it names
Req(op, data) ==
    [ op |-> op, action |-> data.action, decision |-> data.decision,
      route_id |-> data.route_id ]

IdReq(op, action, route_id) ==
    [ op |-> op, action |-> action, decision |-> "none", route_id |-> route_id ]

\* one request handled from start to end
Handle(req, result) ==
    /\ routes' = result.routes
    /\ nextId' = result.nextId
    /\ lastReq' = req
    /\ lastResp' = result.resp
    /\ UNCHANGED <<airports, objVars, codeVars, planVars>>

\* (action, route_id) of a SaveRouteAPI request
SaveRouteModes ==
    {<<"create", 0>>} \cup {<<"overwrite", id>> : id \in {0} \cup ReqIds}

\* (action, decision, route_id) of an EnhancedSaveRouteAPI request
EnhancedModes ==
    { <<"auto", "none", 0>>, <<"auto", "cancel", 0>>, <<"auto", "save_as_new", 0>>,
      <<"save_as", "none", 0>> }
      \cup {<<"overwrite", "none", id>> : id \in {0} \cup ReqIds}

SaveRoute ==
    \E request \in Requested(SaveRouteModes, <<"create", 0>>),
       waypoints \in ReqWaypointLists :
        LET body == request[1]
            mode == request[2]
            data == SaveData(body[1].fields, body[2], body[3], body[1].coordinates,
                             body[4], waypoints, mode[1], "none", mode[2])
        IN  /\ nextId <= MaxRoutes
            /\ Handle(Req("SaveRouteAPI", data), SaveRouteAPI_post(data))

EnhancedSaveRoute ==
    \E request \in Requested(EnhancedModes, <<"auto", "none", 0>>),
       waypoints \in ReqWaypointLists :
        LET body == request[1]
            mode == request[2]
            data == SaveData(body[1].fields, body[2], body[3], body[1].coordinates,
                             body[4], waypoints, mode[1], mode[2], mode[3])
        IN  /\ nextId <= MaxRoutes
            /\ Handle(Req("EnhancedSaveRouteAPI", data), EnhancedSaveRouteAPI_post(data))

SaveAsRoute ==
    \E body \in ReqBodies, waypoints \in ReqWaypointLists :
        LET data == SaveData(body[1].fields, body[2], body[3], body[1].coordinates,
                             body[4], waypoints, "save_as", "none", 0)
        IN  /\ nextId <= MaxRoutes
            /\ Handle(Req("SaveAsRouteAPI", data), SaveAsRouteAPI_post(data))

AdvancedDeleteRoute ==
    \E route_id \in ReqIds, delete_type \in {"soft", "hard"}, confirm \in BOOLEAN :
        Handle(IdReq("AdvancedDeleteRouteAPI",
                     IF confirm THEN delete_type ELSE "unconfirmed", route_id),
               AdvancedDeleteRouteAPI_delete(route_id, delete_type, confirm))

RestoreRoute ==
    \E route_id \in ReqIds :
        Handle(IdReq("RestoreRouteAPI", "restore", route_id),
               RestoreRouteAPI_post(route_id))

DeleteRoute ==
    \E route_id \in ReqIds :
        Handle(IdReq("DeleteRouteAPI", "hard", route_id),
               DeleteRouteAPI_delete(route_id))

Init ==
    /\ airports = DefaultAirports
    /\ StoreIdle
    /\ ObjIdle
    /\ CodeIdle
    /\ PlanIdle

Next ==
    \/ SaveRoute
    \/ EnhancedSaveRoute
    \/ SaveAsRoute
    \/ AdvancedDeleteRoute
    \/ RestoreRoute
    \/ DeleteRoute

Spec == Init /\ [][Next]_vars

----------------------------------------------------------------------------
(* The planners studied alone (SpecRouter): one call of find_route,        *)
(* find_nearby_waypoints or suggest_routes, on any table of segments and   *)
(* any choice of active waypoints                                          *)

SegmentTables == {rows \in SUBSET (1..Len(SegmentRows)) : Cardinality(rows) <= MaxSegs}

\* the waypoints switched off together; with each choice every leg the
\* planner measures has a whole length
InactiveChoices ==
    { {}, {DOT}, {OIII}, {MID}, {DOT, HOT, MID, MIE},
      {DIM, DOT, HOT, MID, MIE, OIII}, WaypointIds }

RouteEnds == {OIII, MID, DIM, OIMM, TOT}

CorridorEnds ==
    { <<Location(OIII), Location(DIM)>>, <<Location(OIII), Location(OIII)>>,
      <<NoPoint, Location(DIM)>>, <<Location(OIII), NoPoint>> }

MaxDeviations == {4 * NmPerDegree100, 100 * 100000}

SuggestEnds ==
    { <<OIII, DIM>>, <<OIII, OIII>>, <<TOT, DIM>>, <<OIII, TOT>>, <<TOT, TOT>> }

InitRouter ==
    /\ airports = DefaultAirports
    /\ StoreIdle
    /\ ObjIdle
    /\ CodeIdle
    /\ segments \in SegmentTables
    /\ activeWps \in {WaypointIds \ off : off \in InactiveChoices}
    /\ plan = NoPlan
    /\ calls = [r \in Requests |-> NoCall]

\* AirwayRouter().find_route(departure, arrival)
FindRoute ==
    /\ ~plan.done
    /\ \E departure \in RouteEnds, arrival \in RouteEnds :
          LET g == build_graph(segments)
          IN  \E route \in find_route(g, departure, arrival) :
                  plan' = [NoPlan EXCEPT !.op = "find_route", !.departure = departure,
                                         !.arrival = arrival, !.graph = g,
                                         !.route = route, !.done = TRUE]
    /\ UNCHANGED <<airports, storeVars, objVars, codeVars, segments, activeWps, calls>>

\* FlightRouter().find_nearby_waypoints(point1, point2, max_distance_nm)
FindNearbyWaypoints ==
    /\ ~plan.done
    /\ \E ends \in CorridorEnds, max \in MaxDeviations :
          plan' = [NoPlan EXCEPT !.op = "find_nearby_waypoints", !.point1 = ends[1],
                                 !.point2 = ends[2], !.max = max,
                                 !.graph = build_graph(segments),
                                 !.nearby = find_nearby_waypoints(ends[1], ends[2], max),
                                 !.done = TRUE]
    /\ UNCHANGED <<airports, storeVars, objVars, codeVars, segments, activeWps, calls>>

\* FlightRouter().suggest_routes(departure_id, arrival_id, max_deviation_nm)
SuggestRoutes ==
    /\ ~plan.done
    /\ \E ends \in SuggestEnds, max \in MaxDeviations :
          LET g == build_graph(segments)
          IN  \E result \in suggest_routes(g, ends[1], ends[2], max) :
                  plan' = [NoPlan EXCEPT !.op = "suggest_routes", !.departure = ends[1],
                                         !.arrival = ends[2], !.max = max, !.graph = g,
                                         !.result = result, !.done = TRUE]
    /\ UNCHANGED <<airports, storeVars, objVars, codeVars, segments, activeWps, calls>>

NextRouter ==
    \/ FindRoute
    \/ FindNearbyWaypoints
    \/ SuggestRoutes

SpecRouter == InitRouter /\ [][NextRouter]_vars

----------------------------------------------------------------------------
(* Planning requests (SpecPlan): the segments table changes while requests *)
(* are served; a request reads the table once, when its router is built    *)

\* the rows that come and go while requests are served
PlanRows == {1, 4, 5}

PlanEnds == { <<OIII, DIM>>, <<OIII, MID>>, <<OIII, <<>>>> }

\* a router of a process that keeps the graph of an earlier request.
RouterGraphShared(inflight, rows) ==
    IF \E r \in Requests : inflight[r].stage # "idle" /\ inflight[r].http # 400
    THEN inflight[CHOOSE r \in Requests :
                    inflight[r].stage # "idle" /\ inflight[r].http # 400].graph
    ELSE build_graph(rows)

\* AirwayRouter.__init__: a new graph, built from the table as it is
RouterGraph(inflight, rows) == build_graph(rows)

InitPlan ==
    /\ airports = DefaultAirports
    /\ StoreIdle
    /\ ObjIdle
    /\ CodeIdle
    /\ segments = {}
    /\ activeWps = WaypointIds
    /\ plan = NoPlan
    /\ calls = [r \in Requests |-> NoCall]

AddSegment ==
    /\ \E k \in PlanRows \ segments : segments' = segments \cup {k}
    /\ UNCHANGED <<airports, storeVars, objVars, codeVars, activeWps, plan, calls>>

RemoveSegment ==
    /\ \E k \in segments : segments' = segments \ {k}
    /\ UNCHANGED <<airports, storeVars, objVars, codeVars, activeWps, plan, calls>>

\* CalculateRoute.post up to router = AirwayRouter()
CalculateRouteBegin ==
    /\ \E r \in Requests, ends \in PlanEnds :
          /\ calls[r].stage # "built"
          /\ calls' = [calls EXCEPT ![r] =
                IF ends[1] = <<>> \/ ends[2] = <<>>
                THEN [NoCall EXCEPT !.stage = "done", !.op = "CalculateRoute",
                                    !.departure = ends[1], !.arrival = ends[2],
                                    !.http = 400]
                ELSE [NoCall EXCEPT !.stage = "built", !.op = "CalculateRoute",
                                    !.departure = ends[1], !.arrival = ends[2],
                                    !.seen = segments,
                                    !.graph = RouterGraph(calls, segments)]]
    /\ UNCHANGED <<airports, storeVars, objVars, codeVars, segments, activeWps, plan>>

\* CalculateRoute.post from router.find_route(departure, arrival) on
CalculateRouteEnd ==
    /\ \E r \in Requests :
          /\ calls[r].stage = "built"
          /\ calls[r].op = "CalculateRoute"
          /\ \E route \in find_route(calls[r].graph, calls[r].departure, calls[r].arrival) :
                calls' = [calls EXCEPT ![r].stage = "done", ![r].route = route,
                                       ![r].http = IF route.found THEN 200 ELSE 404]
    /\ UNCHANGED <<airports, storeVars, objVars, codeVars, segments, activeWps, plan>>

\* quick_route_suggestion up to router = FlightRouter()
QuickSuggestionBegin ==
    /\ \E r \in Requests :
          /\ calls[r].stage # "built"
          /\ calls' = [calls EXCEPT ![r] =
                [NoCall EXCEPT !.stage = "built", !.op = "quick_route_suggestion",
                               !.departure = OIII, !.arrival = DIM,
                               !.seen = segments,
                               !.graph = RouterGraph(calls, segments)]]
    /\ UNCHANGED <<airports, storeVars, objVars, codeVars, segments, activeWps, plan>>

\* quick_route_suggestion from router.suggest_routes(...) on
QuickSuggestionEnd ==
    /\ \E r \in Requests :
          /\ calls[r].stage = "built"
          /\ calls[r].op = "quick_route_suggestion"
          /\ \E result \in suggest_routes(calls[r].graph, calls[r].departure,
                                          calls[r].arrival, 100 * 100000) :
                calls' = [calls EXCEPT ![r].stage = "done", ![r].result = result,
                                       ![r].http = 200]
    /\ UNCHANGED <<airports, storeVars, objVars, codeVars, segments, activeWps, plan>>

NextPlan ==
    \/ AddSegment
    \/ RemoveSegment
    \/ CalculateRouteBegin
    \/ CalculateRouteEnd
    \/ QuickSuggestionBegin
    \/ QuickSuggestionEnd

SpecPlan == InitPlan /\ [][NextPlan]_vars

----------------------------------------------------------------------------
(* What the claims speak of, stated apart from the code's own computation  *)

Last(s) == s[Len(s)]

\* the entries of a waypoints list that resolve, in list order
ResolvableSubsequence(wps) == SelectSeq(wps, Resolves)

LocationsOf(ids) == [k \in 1..Len(ids) |-> WaypointLocation(ids[k])]

\* the sum of the distances of the consecutive pairs of a list of known waypoints
RECURSIVE PathLength(_)
PathLength(ids) ==
    IF Len(ids) < 2 THEN 0
    ELSE DistanceDeg(WaypointLocation(ids[1]), WaypointLocation(ids[2])) * NmPerDegree100
           + PathLength(Tail(ids))

CasePairs ==
    { <<"d", "D">>, <<"h", "H">>, <<"i", "I">>, <<"m", "M">>, <<"o", "O">>,
      <<"r", "R">>, <<"t", "T">> }

SameLetter(x, y) == x = y \/ <<x, y>> \in CasePairs \/ <<y, x>> \in CasePairs

\* s is the code c in some letter case, with blanks around it
IsVariantOf(s, c) ==
    \E l \in 0..Len(s), r \in 0..Len(s) :
        /\ l + Len(c) + r = Len(s)
        /\ \A k \in 1..l : s[k] = Space
        /\ \A k \in 1..r : s[Len(s) - k + 1] = Space
        /\ \A k \in 1..Len(c) : SameLetter(s[l + k], c[k])

IsLetters(c, n) ==
    Len(c) = n /\ \A k \in 1..n : c[k] \in UpperLetters \cup LowerLetters

----------------------------------------------------------------------------
(* Route.save (SpecSave)                                                   *)

C2_Claim ==
    (saves >= 1 /\ Len(ResolvableSubsequence(obj.waypoints)) >= 2) =>
        obj.coordinates = LocationsOf(ResolvableSubsequence(obj.waypoints))

\* C3 as claimed, in the case where save() had 2 or more waypoints and injected
\* none: total_distance is the length of the path through the resolvable
\* subsequence, a leg across an unresolvable identifier included.
C3_Claim ==
    (saves >= 1 /\ Len(pre.waypoints) >= 2 /\ obj.waypoints = pre.waypoints) =>
        obj.total_distance = PathLength(ResolvableSubsequence(obj.waypoints))

\* C4 as claimed: a second save() of a saved route, no field changed in
\* between, leaves coordinates, total_distance and flight_time as they were.
C4_Claim ==
    saves >= 2 =>
        /\ obj.coordinates = pre.coordinates
        /\ obj.total_distance = pre.total_distance
        /\ obj.flight_time = pre.flight_time

\* C5 as claimed: when fewer than 2 waypoints resolve, save() leaves both
\* coordinates and total_distance at the values they had before.
C5_Claim ==
    (saves >= 1 /\ Len(ResolvableSubsequence(pre.waypoints)) < 2) =>
        /\ obj.coordinates = pre.coordinates
        /\ obj.total_distance = pre.total_distance

\* C5 amended: when fewer than 2 waypoints resolve, save() leaves coordinates
\* at the value it had before; total_distance keeps its value when the list has
\* fewer than 2 entries and is set to 0 when it has 2 or more.
C5_KeptOrZero ==
    (saves >= 1 /\ Len(ResolvableSubsequence(pre.waypoints)) < 2) =>
        /\ obj.coordinates = pre.coordinates
        /\ Len(pre.waypoints) < 2 => obj.total_distance = pre.total_distance
        /\ Len(pre.waypoints) >= 2 => obj.total_distance = 0

C5_Witness ==
    /\ saves = 1
    /\ Len(ResolvableSubsequence(pre.waypoints)) = 1
    /\ Len(pre.waypoints) >= 2
    /\ pre.coordinates # NoLine
    /\ obj.coordinates = pre.coordinates
    /\ pre.total_distance > 0
    /\ obj.total_distance = 0

\* C6: save() never changes a flight_time that was non-empty before it; when it
\* does assign flight_time, flight_time was empty, total_distance is positive
\* and the value is total_distance at 450 knots, in whole hours and minutes.
C6_FlightTimeKept ==
    saves >= 1 =>
        /\ pre.flight_time # <<>> => obj.flight_time = pre.flight_time
        /\ obj.flight_time # pre.flight_time =>
            /\ pre.flight_time = <<>>
            /\ obj.total_distance > 0
            /\ obj.flight_time[2] \in 0..59
            /\ obj.flight_time[1] * 60 + obj.flight_time[2]
                 = (obj.total_distance * 60) \div 45000

C6_Witness ==
    /\ saves = 1
    /\ pre.flight_time # <<>>
    /\ obj.flight_time = pre.flight_time
    /\ obj.total_distance > 0
    /\ obj.total_distance # pre.total_distance

----------------------------------------------------------------------------
(* get_icao_code (SpecCode)                                                *)

\* C9: for every airport row with IATA code i and a 4-letter alphabetic ICAO
\* code c, get_icao_code of i and of c, in any letter case and with blanks
\* around, returns c.
C9_SameCanonicalCode ==
    codeDone =>
        \A k \in 1..Len(airports) :
            (/\ IsLetters(airports[k].icao_code, 4)
             /\ \/ IsVariantOf(codeIn, airports[k].iata_code)
                \/ IsVariantOf(codeIn, airports[k].icao_code))
              => codeOut = airports[k].icao_code

C9_Witness ==
    /\ codeDone
    /\ \E k \in 1..Len(airports) :
          /\ IsLetters(airports[k].icao_code, 4)
          /\ IsVariantOf(codeIn, airports[k].iata_code)
          /\ codeIn # airports[k].iata_code
          /\ Strip(codeIn) # codeIn
          /\ Upper(codeIn) # codeIn
          /\ codeOut = airports[k].icao_code

\* C11: for a code that is 3 letters once trimmed and no airport has as its
\* IATA code, get_icao_code returns the trimmed, upper-cased code itself (a
\* non-empty value, so the save handlers' "if not departure_icao" test lets it
\* pass) under the default policy, and None when return_original_if_not_found
\* is false.
C11_UnknownIataKept ==
    codeDone =>
        LET c == Strip(Upper(codeIn))
        IN  (/\ codeIn # NoneCode
             /\ IsLetters(c, 3)
             /\ \A k \in 1..Len(airports) : airports[k].iata_code # c)
              => /\ codeFlag => (codeOut = c /\ Truthy(codeOut))
                 /\ ~codeFlag => codeOut = NoneCode

C11_Witness ==
    /\ codeDone
    /\ codeFlag
    /\ airports # <<>>
    /\ IsLetters(codeOut, 3)
    /\ codeOut # codeIn
    /\ codeOut = Strip(Upper(codeIn))
    /\ \A k \in 1..Len(airports) : airports[k].iata_code # codeOut

----------------------------------------------------------------------------
(* The routes table (Spec)                                                 *)

SameTuple(a, b) ==
    /\ a.departure = b.departure
    /\ a.arrival = b.arrival
    /\ a.name = b.name
    /\ a.version = b.version

UniqueAmongActive ==
    \A i, j \in DOMAIN routes :
        (i # j /\ routes[i].is_active /\ routes[j].is_active)
          => ~SameTuple(routes[i], routes[j])

\* C7: in every reachable state no two active routes share (departure,
\* arrival, name, version), and a request the database refuses for that reason
\* is answered with an error and leaves the table as it was.
C7_UniqueActiveRoutes ==
    /\ []UniqueAmongActive
    /\ [][lastResp'.reason = "IntegrityError"
            => (routes' = routes /\ lastResp'.status = "error")]_vars

C7_Witness ==
    /\ lastResp.reason = "IntegrityError"
    /\ \E i, j \in DOMAIN routes :
          /\ i # j
          /\ SameTuple(routes[i], routes[j])
          /\ routes[i].is_active
          /\ ~routes[j].is_active

\* C8 as claimed: a soft-deleted route does not block a new save of its pair,
\* so a create request (SaveRouteAPI create, EnhancedSaveRouteAPI auto) is
\* answered "conflict" only when an active route holds the departure and
\* arrival of the route it reports.
C8_Claim ==
    (/\ lastReq.op \in {"SaveRouteAPI", "EnhancedSaveRouteAPI"}
     /\ lastReq.action \in {"create", "auto"}
     /\ lastResp.status = "conflict")
      => \E j \in DOMAIN routes :
            /\ routes[j].is_active
            /\ routes[j].departure = routes[lastResp.route_id].departure
            /\ routes[j].arrival = routes[lastResp.route_id].arrival

\* C10 as claimed: a save request whose departure or arrival is not 3 or 4
\* letters is turned away and writes nothing, so every departure and arrival
\* in the table is a code of 3 or 4 letters.
C10_Claim ==
    \A j \in DOMAIN routes :
        /\ IsLetters(routes[j].departure, 3) \/ IsLetters(routes[j].departure, 4)
        /\ IsLetters(routes[j].arrival, 3) \/ IsLetters(routes[j].arrival, 4)

----------------------------------------------------------------------------
(* AirwayRouter (SpecRouter)                                               *)

FindRouteDone == plan.done /\ plan.op = "find_route"

\* some row of the table joins u and v, in either direction
Joined(rows, u, v) ==
    \E k \in rows : {SegmentRows[k].from_waypoint, SegmentRows[k].to_waypoint} = {u, v}

Referenced(rows, n) ==
    \E k \in rows : n \in {SegmentRows[k].from_waypoint, SegmentRows[k].to_waypoint}

\* the weight the graph holds for the i-th edge of a path, summed over i..
RECURSIVE WeightFrom(_, _, _)
WeightFrom(g, p, i) ==
    IF i >= Len(p) THEN 0
    ELSE g.edges[{p[i], p[i + 1]}].weight + WeightFrom(g, p, i + 1)

\* every path of g without a repeated node that starts with the nodes of p
\* and ends at e
RECURSIVE SimplePathsFrom(_, _, _)
SimplePathsFrom(g, p, e) ==
    IF Last(p) = e THEN {p}
    ELSE UNION { SimplePathsFrom(g, Append(p, n), e) :
                   n \in {m \in g.nodes : {Last(p), m} \in DOMAIN g.edges /\ ~InList(m, p)} }

\* the waypoints a chain of rows connects to the waypoints of S
RECURSIVE ConnectedTo(_, _)
ConnectedTo(rows, S) ==
    LET more == S \cup {n \in RouteEnds : \E m \in S : Joined(rows, m, n)}
    IN  IF more = S THEN S ELSE ConnectedTo(rows, more)

\* C12: the waypoints of every result of find_route start at the departure,
\* end at the arrival and go from each waypoint to the next over a segment of
\* the table; total_distance is the sum of the weights the graph holds for
\* those edges; no path of the graph between the two ends weighs less.
C12_ShortestPath ==
    (FindRouteDone /\ plan.route.found) =>
        LET p == plan.route.waypoints
        IN  /\ p # <<>>
            /\ p[1] = plan.departure
            /\ Last(p) = plan.arrival
            /\ \A i \in 1..(Len(p) - 1) : Joined(segments, p[i], p[i + 1])
            /\ plan.route.total_distance = WeightFrom(plan.graph, p, 1)
            /\ \A q \in SimplePathsFrom(plan.graph, <<plan.departure>>, plan.arrival) :
                  WeightFrom(plan.graph, q, 1) >= plan.route.total_distance

C12_Witness ==
    /\ FindRouteDone
    /\ plan.route.found
    /\ Len(plan.route.waypoints) = 3
    /\ {plan.departure, plan.arrival} \in DOMAIN plan.graph.edges
    /\ plan.graph.edges[{plan.departure, plan.arrival}].weight > plan.route.total_distance

\* C13: find_route returns None exactly when the departure or the arrival is
\* on no segment of the table or no chain of segments connects the two, and
\* a path in every other case.
C13_NoneIffUnconnected ==
    FindRouteDone =>
        (~plan.route.found <=>
            \/ ~Referenced(segments, plan.departure)
            \/ ~Referenced(segments, plan.arrival)
            \/ plan.arrival \notin ConnectedTo(segments, {plan.departure}))

C13_Witness ==
    /\ FindRouteDone
    /\ ~plan.route.found
    /\ Referenced(segments, plan.departure)
    /\ Referenced(segments, plan.arrival)
    /\ Cardinality(segments) >= 2

\* the row the edge between u and v is said to come from: the lowest distance
\* among the rows joining them, the first such row on a tie
LowestRow(rows, e) ==
    CHOOSE k \in rows :
        /\ {SegmentRows[k].from_waypoint, SegmentRows[k].to_waypoint} = e
        /\ \A j \in rows :
              {SegmentRows[j].from_waypoint, SegmentRows[j].to_waypoint} = e
                => \/ SegmentRows[k].distance < SegmentRows[j].distance
                   \/ SegmentRows[k].distance = SegmentRows[j].distance /\ k <= j

\* C14 as claimed: for every pair of waypoints joined by several segments the
\* graph of build_graph holds the weight and the airway of the segment with
\* the lowest distance, of the first one seen when distances are equal.
C14_Claim ==
    FindRouteDone =>
        \A e \in DOMAIN plan.graph.edges :
            /\ plan.graph.edges[e].weight = SegmentRows[LowestRow(segments, e)].distance
            /\ plan.graph.edges[e].airway = SegmentRows[LowestRow(segments, e)].airway

\* the first edge of a path that the graph labels with an airway
FirstEdgeOn(g, p, airway) ==
    Min({i \in 1..(Len(p) - 1) : g.edges[{p[i], p[i + 1]}].airway = airway})

\* C15: airways_used of every result of find_route holds the airway of each
\* edge of the returned path once, holds nothing else, and lists the airways
\* in the order of their first edge along the path.
C15_AirwaysOnceInOrder ==
    (FindRouteDone /\ plan.route.found) =>
        LET p == plan.route.waypoints
            used == plan.route.airways_used
        IN  /\ \A i, j \in 1..Len(used) : i # j => used[i] # used[j]
            /\ {used[i] : i \in 1..Len(used)}
                 = {plan.graph.edges[{p[i], p[i + 1]}].airway : i \in 1..(Len(p) - 1)}
            /\ \A i, j \in 1..Len(used) :
                  i < j => FirstEdgeOn(plan.graph, p, used[i])
                             < FirstEdgeOn(plan.graph, p, used[j])

C15_Witness ==
    /\ FindRouteDone
    /\ plan.route.found
    /\ plan.route.segment_count = 3
    /\ Len(plan.route.airways_used) = 2
    /\ plan.graph.edges[{plan.route.waypoints[1], plan.route.waypoints[2]}].airway
         = plan.graph.edges[{plan.route.waypoints[3], plan.route.waypoints[4]}].airway

----------------------------------------------------------------------------
(* FlightRouter (SpecRouter)                                               *)

FindNearbyDone ==
    plan.done /\ plan.op = "find_nearby_waypoints"
      /\ plan.point1 # NoPoint /\ plan.point2 # NoPoint

\* the distances of a waypoint before any rounding
LineNm(id) == LineDistance(Location(id), plan.point1, plan.point2) * NmPerDegree100
StartNm(id) == PointDistance(Location(id), plan.point1) * NmPerDegree100

\* the waypoints returned are the active ones at most max from the line
CorridorMembers ==
    /\ \A i, j \in 1..Len(plan.nearby) :
          i # j => plan.nearby[i].waypoint # plan.nearby[j].waypoint
    /\ {plan.nearby[i].waypoint : i \in 1..Len(plan.nearby)}
         = {id \in activeWps : LineNm(id) <= plan.max}

SuggestDone == plan.done /\ plan.op = "suggest_routes"

TypeRank(type) ==
    CASE type = "DIRECT" -> 1 [] type = "AIRWAY_NETWORK" -> 2
      [] type = "VIA_WAYPOINTS" -> 3 [] type = "HYBRID" -> 4

\* C18: when both identifiers are waypoints, suggest_routes returns without
\* error 1 to 4 suggestions in the order DIRECT, AIRWAY_NETWORK,
\* VIA_WAYPOINTS, HYBRID, at most one of each; the first is DIRECT with
\* waypoints [departure, arrival]; AIRWAY_NETWORK is among them exactly when
\* the table of segments connects the two.
C18_SuggestionsInOrder ==
    (SuggestDone /\ plan.departure \in WaypointIds /\ plan.arrival \in WaypointIds) =>
        LET s == plan.result.suggestions
        IN  /\ ~plan.result.error
            /\ Len(s) \in 1..4
            /\ \A i \in 1..Len(s) :
                  s[i].type \in {"DIRECT", "AIRWAY_NETWORK", "VIA_WAYPOINTS", "HYBRID"}
            /\ \A i, j \in 1..Len(s) : i < j => TypeRank(s[i].type) < TypeRank(s[j].type)
            /\ s[1].type = "DIRECT"
            /\ s[1].waypoints = <<plan.departure, plan.arrival>>
            /\ (\E i \in 1..Len(s) : s[i].type = "AIRWAY_NETWORK")
                 <=> /\ Referenced(segments, plan.departure)
                     /\ Referenced(segments, plan.arrival)
                     /\ plan.arrival \in ConnectedTo(segments, {plan.departure})

C18_Witness ==
    /\ SuggestDone
    /\ ~plan.result.error
    /\ Len(plan.result.suggestions) = 4
    /\ Len(plan.result.suggestions[2].waypoints) = 3
    /\ Len(plan.result.suggestions[3].waypoints) = 4

----------------------------------------------------------------------------
(* Planning requests (SpecPlan)                                            *)

Planning(r) == calls[r].stage # "idle" /\ calls[r].http # 400

\* every request in flight or answered holds the graph of the table as it
\* was when the request built its router, and is answered from that graph
OwnGraph ==
    \A r \in Requests :
        Planning(r) =>
            /\ calls[r].graph = build_graph(calls[r].seen)
            /\ (calls[r].stage = "done" /\ calls[r].op = "CalculateRoute")
                 => calls[r].route \in find_route(build_graph(calls[r].seen),
                                                  calls[r].departure, calls[r].arrival)
            /\ (calls[r].stage = "done" /\ calls[r].op = "quick_route_suggestion")
                 => calls[r].result \in suggest_routes(build_graph(calls[r].seen),
                                                       calls[r].departure,
                                                       calls[r].arrival, 100 * 100000)

\* a request that builds its router reads the table of that moment and
\* touches no other request; a change of the table touches no request
OwnGraphStep ==
    /\ \A r \in Requests :
          (calls'[r] # calls[r] /\ calls'[r].stage = "built")
            => /\ calls'[r].seen = segments
               /\ \A o \in Requests \ {r} : calls'[o] = calls[o]
    /\ segments' # segments => calls' = calls

\* C19: every planning request answers from a graph built from the segments
\* the table held when the request was made, so a segment added or removed
\* between two requests shows in the second; requests served at the same
\* time each keep a graph of their own.
C19_GraphPerRequest == []OwnGraph /\ [][OwnGraphStep]_vars

C19_Witness ==
    /\ calls["r1"].stage = "built"
    /\ calls["r2"].stage = "built"
    /\ calls["r1"].graph # calls["r2"].graph
    /\ calls["r1"].seen # segments
    /\ calls["r2"].seen # segments

----------------------------------------------------------------------------
(* The routes table, continued (Spec)                                      *)

\* C20: a successful overwrite (SaveRouteAPI or EnhancedSaveRouteAPI, action
\* 'overwrite' with the id of a stored route) leaves the route under its id
\* and with the name it had, whatever name the request carries, and adds no
\* route.
C20_OverwriteKeepsName ==
    [][(/\ lastReq'.op \in {"SaveRouteAPI", "EnhancedSaveRouteAPI"}
        /\ lastReq'.action = "overwrite"
        /\ lastReq'.route_id # 0
        /\ lastResp'.status = "success")
         => /\ lastReq'.route_id \in DOMAIN routes
            /\ DOMAIN routes' = DOMAIN routes
            /\ lastResp'.route_id = lastReq'.route_id
            /\ routes'[lastReq'.route_id].name = routes[lastReq'.route_id].name]_vars

C20_Witness ==
    /\ lastReq.action = "overwrite"
    /\ lastResp.status = "success"
    /\ lastResp.route_id \in DOMAIN routes
    /\ routes[lastResp.route_id].departure = BadCode
    /\ routes[lastResp.route_id].name = DefaultName(OIII, OIMM)

\* the answers a save handler gives to a body it turns away
TurnedAway == {"missing_field", "min_points", "invalid_codes"}

\* C21 as claimed: every SaveAsRouteAPI request with departure, arrival and 2
\* or more coordinate pairs adds exactly one route, under the name the request
\* gives or the default name, and leaves every stored route as it was, also
\* when a route with that departure, arrival and name is stored already.
C21_Claim ==
    [][(lastReq'.op = "SaveAsRouteAPI" /\ lastResp'.reason \notin TurnedAway)
         => /\ nextId \notin DOMAIN routes
            /\ DOMAIN routes' = DOMAIN routes \cup {nextId}
            /\ \A j \in DOMAIN routes : routes'[j] = routes[j]
            /\ routes'[nextId].name
                 \in {RT, DefaultName(routes'[nextId].departure,
                                      routes'[nextId].arrival)}]_vars

----------------------------------------------------------------------------
(* Soft delete and restore (SpecTrip): the routes table with the row a     *)
(* soft delete found kept in pre, and in saves how far the round trip has  *)
(* gone: 1 after a soft delete, 2 after the restore that follows it at     *)
(* once, 0 after anything else                                            *)

\* one request handled from start to end, the round trip kept up to date
TripHandle(req, result, before, stage) ==
    /\ routes' = result.routes
    /\ nextId' = result.nextId
    /\ lastReq' = req
    /\ lastResp' = result.resp
    /\ pre' = before
    /\ saves' = stage
    /\ UNCHANGED <<airports, obj, codeVars, planVars>>

\* Route.soft_delete and Route.restore: save(update_fields=['is_active',
\* 'updated_at']) runs save() on the instance and writes is_active alone
UpdateIsActive(id, value, status) ==
    IF id \notin DOMAIN routes
    THEN NoWrite(Resp("error", 404, "not_found", id))
    ELSE LET row == [routes[id] EXCEPT !.is_active = value]
             err == DbError(id, row)
         IN  IF err # "ok" THEN Failed(err)
             ELSE Result([routes EXCEPT ![id] = row], nextId,
                         Resp("success", 200, status, id))

Route_soft_delete(id) == UpdateIsActive(id, FALSE, "soft_deleted")
Route_restore(id) == UpdateIsActive(id, TRUE, "restored")

Deleted(result, id) == IF result.resp.status = "success" THEN routes[id] ELSE pre
Restored(result, id) ==
    IF saves = 1 /\ lastReq.route_id = id /\ result.resp.reason = "restored"
    THEN 2 ELSE 0

TripSave ==
    \E body \in FullBodies, waypoints \in ReqWaypointLists :
        LET data == SaveData(body[1].fields, body[2], body[3], body[1].coordinates,
                             body[4], waypoints, "create", "none", 0)
        IN  /\ nextId <= MaxRoutes
            /\ TripHandle(Req("SaveRouteAPI", data), SaveRouteAPI_post(data), pre, 0)

TripSaveAs ==
    \E body \in FullBodies, waypoints \in ReqWaypointLists :
        LET data == SaveData(body[1].fields, body[2], body[3], body[1].coordinates,
                             body[4], waypoints, "save_as", "none", 0)
        IN  /\ nextId <= MaxRoutes
            /\ TripHandle(Req("SaveAsRouteAPI", data), SaveAsRouteAPI_post(data), pre, 0)

TripSoftDelete ==
    \E route_id \in ReqIds :
        LET result == AdvancedDeleteRouteAPI_delete(route_id, "soft", TRUE)
        IN  TripHandle(IdReq("AdvancedDeleteRouteAPI", "soft", route_id), result,
                       Deleted(result, route_id),
                       IF result.resp.status = "success" THEN 1 ELSE 0)

TripRestore ==
    \E route_id \in ReqIds :
        LET result == RestoreRouteAPI_post(route_id)
        IN  TripHandle(IdReq("RestoreRouteAPI", "restore", route_id), result,
                       pre, Restored(result, route_id))

TripModelSoftDelete ==
    \E route_id \in ReqIds :
        LET result == Route_soft_delete(route_id)
        IN  TripHandle(IdReq("Route.soft_delete", "soft", route_id), result,
                       Deleted(result, route_id),
                       IF result.resp.status = "success" THEN 1 ELSE 0)

TripModelRestore ==
    \E route_id \in ReqIds :
        LET result == Route_restore(route_id)
        IN  TripHandle(IdReq("Route.restore", "restore", route_id), result,
                       pre, Restored(result, route_id))

NextTrip ==
    \/ TripSave
    \/ TripSaveAs
    \/ TripSoftDelete
    \/ TripRestore
    \/ TripModelSoftDelete
    \/ TripModelRestore

SpecTrip == Init /\ [][NextTrip]_vars

\* the fields a restore is to bring back
SameContent(a, b) ==
    /\ a.name = b.name
    /\ a.departure = b.departure
    /\ a.arrival = b.arrival
    /\ a.waypoints = b.waypoints
    /\ a.coordinates = b.coordinates
    /\ a.total_distance = b.total_distance
    /\ a.flight_time = b.flight_time

\* C22 as claimed: after a confirmed soft delete and the restore that follows
\* it with nothing in between, through the endpoints or through the methods
\* of Route, the route is active and its name, departure, arrival, waypoints,
\* coordinates, total_distance and flight_time are those it had before the
\* soft delete.
C22_Claim ==
    saves = 2
      => /\ routes[lastReq.route_id].is_active
         /\ SameContent(routes[lastReq.route_id], pre)

----------------------------------------------------------------------------
(* FlightRouter.suggest_routes, continued (SpecRouter)                     *)

\* the corridor of a suggest_routes call, as find_nearby_waypoints ranks it
Corridor ==
    find_nearby_waypoints(Location(plan.departure), Location(plan.arrival), plan.max)

\* the direct distance of the call, in hundred-thousandths of a mile
DirectNm ==
    PointDistance(Location(plan.departure), Location(plan.arrival)) * NmPerDegree100

\* the ranks of the corridor fixes whose reported distance from the departure
\* lies strictly between 50 nm and the direct distance less 50 nm
AwayFromEnds ==
    { k \in 1..Len(Corridor) :
        /\ Corridor[k].distance_to_start_nm * 10000 > KeepOutNm * 100000
        /\ Corridor[k].distance_to_start_nm * 10000 < DirectNm - KeepOutNm * 100000 }

\* the smallest (at most n) elements of a set of ranks, ascending
RECURSIVE FirstOf(_, _)
FirstOf(S, n) ==
    IF S = {} \/ n = 0 THEN <<>>
    ELSE LET least == CHOOSE x \in S : \A y \in S : x <= y
         IN  <<least>> \o FirstOf(S \ {least}, n - 1)

\* the sum of the distances of the consecutive pairs of a path
RECURSIVE PairsNm(_, _)
PairsNm(path, i) ==
    IF i >= Len(path) THEN 0
    ELSE PointDistance(Location(path[i]), Location(path[i + 1])) * NmPerDegree100
           + PairsNm(path, i + 1)

OfType(type) ==
    {i \in 1..Len(plan.result.suggestions) : plan.result.suggestions[i].type = type}

\* C23: suggest_routes offers VIA_WAYPOINTS exactly when some corridor fix is
\* reported more than 50 nm from the departure and less than the direct
\* distance less 50 nm; its path is the departure, the first (at most 2) such
\* fixes in corridor rank order, the arrival; its distance is the sum of the
\* distances of the consecutive pairs of the path, to 0.1 nm.
C23_ViaWaypoints ==
    (SuggestDone /\ ~plan.result.error) =>
        LET picked == FirstOf(AwayFromEnds, 2)
            path == <<plan.departure>>
                      \o [k \in 1..Len(picked) |-> Corridor[picked[k]].waypoint]
                      \o <<plan.arrival>>
        IN  /\ (OfType("VIA_WAYPOINTS") # {}) <=> (AwayFromEnds # {})
            /\ \A i \in OfType("VIA_WAYPOINTS") :
                  /\ plan.result.suggestions[i].waypoints = path
                  /\ plan.result.suggestions[i].total_distance_nm
                       = Round1(PairsNm(path, 1))

\* a path through MIE and RIM: MID, first in rank, is inactive, the fixes
\* next to the departure are passed over
C23_Witness ==
    /\ SuggestDone
    /\ \E i \in OfType("VIA_WAYPOINTS") :
          plan.result.suggestions[i].waypoints = <<OIII, MIE, RIM, DIM>>
    /\ DOT \in activeWps
    /\ Cardinality(AwayFromEnds) = 2
    /\ Len(Corridor) > 2

\* the ranks of the corridor fixes reported less than 50 nm from the line
NearLine ==
    {k \in 1..Len(Corridor) : Corridor[k].distance_to_line_nm * 10000 < KeepOutNm * 100000}

\* twice the gap between the reported distance of the k-th corridor fix from
\* the departure and half the direct distance
GapToHalf(k) == Abs(2 * Corridor[k].distance_to_start_nm * 10000 - DirectNm)

\* C24: suggest_routes offers HYBRID exactly when some corridor fix is
\* reported less than 50 nm from the line; its path is the departure, the fix
\* among those whose distance from the departure is closest to half the
\* direct distance (of several equally close, the one ranked first in the
\* corridor), the arrival.
C24_Hybrid ==
    (SuggestDone /\ ~plan.result.error) =>
        /\ (OfType("HYBRID") # {}) <=> (NearLine # {})
        /\ \A i \in OfType("HYBRID") :
              \E k \in NearLine :
                  /\ \A j \in NearLine :
                        \/ GapToHalf(k) < GapToHalf(j)
                        \/ GapToHalf(k) = GapToHalf(j) /\ k <= j
                  /\ plan.result.suggestions[i].waypoints
                       = <<plan.departure, Corridor[k].waypoint, plan.arrival>>

\* MID and MIE are equally close to the middle and MID, ranked first, is
\* taken; RIM, as close as they are, lies too far from the line
C24_Witness ==
    /\ SuggestDone
    /\ \E i \in OfType("HYBRID") :
          plan.result.suggestions[i].waypoints = <<OIII, MID, DIM>>
    /\ \E k, j \in NearLine :
          /\ k < j
          /\ Corridor[k].waypoint = MID
          /\ Corridor[j].waypoint = MIE
          /\ GapToHalf(k) = GapToHalf(j)
    /\ \E k \in 1..Len(Corridor) : k \notin NearLine

\* the points between the first and the last of a path
Inner(path) == {path[k] : k \in 2..(Len(path) - 1)}

\* C25 as claimed: the intermediate points of the VIA_WAYPOINTS and of the
\* HYBRID suggestion are distinct from the departure and from the arrival
\* waypoint, whichever waypoints are active.
C25_Claim ==
    (SuggestDone /\ ~plan.result.error) =>
        \A i \in OfType("VIA_WAYPOINTS") \cup OfType("HYBRID") :
            /\ plan.departure \notin Inner(plan.result.suggestions[i].waypoints)
            /\ plan.arrival \notin Inner(plan.result.suggestions[i].waypoints)

----------------------------------------------------------------------------
(* The routes table, continued (Spec)                                      *)

\* C26 as claimed: a save request with action 'overwrite' (SaveRouteAPI,
\* EnhancedSaveRouteAPI) never creates a route: whatever route_id it carries,
\* absent or unknown ones included, the table holds as many routes after it
\* as before, and the request updated the route it names or was answered with
\* an error or a conflict.
C26_Claim ==
    [][(/\ lastReq'.op \in {"SaveRouteAPI", "EnhancedSaveRouteAPI"}
        /\ lastReq'.action = "overwrite")
         => /\ DOMAIN routes' = DOMAIN routes
            /\ \/ lastResp'.status \in {"error", "conflict"}
               \/ /\ lastResp'.status = "success"
                  /\ lastResp'.route_id = lastReq'.route_id
                  /\ \A j \in DOMAIN routes \ {lastReq'.route_id} :
                        routes'[j] = routes[j]]_vars

----------------------------------------------------------------------------
(* Create requests in flight together (SpecRace): SaveRouteAPI.post with   *)
(* action 'create', each request taking its step up to the existence check *)
(* and its step from the insert on when the server gets to it              *)

NoSave == [stage |-> "idle", data |-> <<>>, resp |-> NoResp]

InitRace ==
    /\ airports = DefaultAirports
    /\ StoreIdle
    /\ ObjIdle
    /\ CodeIdle
    /\ segments = {}
    /\ activeWps = WaypointIds
    /\ plan = NoPlan
    /\ calls = [r \in Requests |-> NoSave]

\* SaveRouteAPI.post up to existing_routes.exists(): the request is answered
\* here unless the handler goes on to Route.objects.create
CreateBegin ==
    \E r \in Requests, body \in ReqBodies, waypoints \in ReqWaypointLists :
        LET data == SaveData(body[1].fields, body[2], body[3], body[1].coordinates,
                             body[4], waypoints, "create", "none", 0)
            result == SaveRouteAPI_post(data)
        IN  /\ nextId <= MaxRoutes
            /\ calls[r].stage # "checked"
            /\ IF result.resp.reason = "created"
               THEN /\ calls' = [calls EXCEPT ![r] =
                                    [stage |-> "checked", data |-> data, resp |-> NoResp]]
                    /\ UNCHANGED <<lastReq, lastResp>>
               ELSE /\ calls' = [calls EXCEPT ![r] =
                                    [stage |-> "done", data |-> data,
                                     resp |-> result.resp]]
                    /\ lastReq' = Req("SaveRouteAPI", data)
                    /\ lastResp' = result.resp
            /\ UNCHANGED <<airports, routes, nextId, objVars, codeVars, segments,
                           activeWps, plan>>

\* SaveRouteAPI.post from Route.objects.create on, on the table as it is now
CreateEnd ==
    \E r \in Requests :
        /\ calls[r].stage = "checked"
        /\ LET data == calls[r].data
               departure_icao == get_icao_code(data.departure, TRUE)
               arrival_icao == get_icao_code(data.arrival, TRUE)
               route_name == Strip(data.name)
               result == CreateRoute(IF route_name = <<>>
                                     THEN DefaultName(departure_icao, arrival_icao)
                                     ELSE route_name,
                                     departure_icao, arrival_icao, data,
                                     ParseCoordinates(data.coordinates), "created")
           IN  /\ routes' = result.routes
               /\ nextId' = result.nextId
               /\ lastReq' = Req("SaveRouteAPI", data)
               /\ lastResp' = result.resp
               /\ calls' = [calls EXCEPT ![r].stage = "done", ![r].resp = result.resp]
        /\ UNCHANGED <<airports, objVars, codeVars, segments, activeWps, plan>>

NextRace ==
    \/ CreateBegin
    \/ CreateEnd

SpecRace == InitRace /\ [][NextRace]_vars

\* C27 as claimed: create requests of SaveRouteAPI never leave two routes of
\* one (departure, arrival) pair, also when two of them run together and the
\* existence check and the insert of one fall between those of the other.
C27_Claim ==
    \A i, j \in DOMAIN routes :
        (routes[i].departure = routes[j].departure
           /\ routes[i].arrival = routes[j].arrival) => i = j

----------------------------------------------------------------------------
(* Routes made from suggestions (SpecNames): create_route_from_suggestion  *)
(* and the endpoints that delete and restore, on one day                   *)

MaxNamed == 3

\* timezone.now().strftime('%Y%m%d'), the same through a run
Today == <<"2", "0", "2", "6", "1", "1", "0", "2">>

\* f"{n:03d}" for n below 10
Seq3(n) == <<"0", "0", <<"0", "1", "2", "3", "4", "5", "6", "7", "8", "9">>[n + 1]>>

\* name__startswith=prefix
StartsWith(name, prefix) ==
    Len(name) >= Len(prefix) /\ SubSeq(name, 1, Len(prefix)) = prefix

\* the waypoints of the suggestions routes are made from
SuggestedPaths == { <<OIII, DIM>>, <<OIII, DIM, OIMM>>, <<OIII, OIMM>> }

\* create_route_from_suggestion, lines 261-266: the name made up when none is
\* given; Route.objects.filter counts active and inactive rows alike
GeneratedName(waypoints) ==
    LET prefix == waypoints[1] \o <<"-">> \o waypoints[Len(waypoints)]
                    \o <<"-">> \o Today
        last_seq == Cardinality({j \in DOMAIN routes :
                                    StartsWith(routes[j].name, prefix)}) + 1
    IN  prefix \o <<"-">> \o Seq3(last_seq)

\* FlightRouter.create_route_from_suggestion(suggestion, user, None,
\* route_name); total_distance in hundredths of a mile, flight_time not
\* given (falsy).  An exception of Route.objects.create leaves the function:
\* the answer is the error.
create_route_from_suggestion(waypoints, route_name) ==
    LET name == IF route_name = <<>> THEN GeneratedName(waypoints) ELSE route_name
        data == [waypoints |-> waypoints,
                 total_distance |-> Round1(LegsNm(waypoints)) * 10,
                 flight_time |-> <<>>]
    IN  CreateRoute(name, waypoints[1], waypoints[Len(waypoints)], data, NoLine,
                    "created")

CreateFromSuggestion ==
    \E waypoints \in SuggestedPaths, route_name \in {<<>>, RT} :
        /\ nextId <= MaxNamed
        /\ Handle(IdReq("create_route_from_suggestion",
                        IF route_name = <<>> THEN "unnamed" ELSE "named", 0),
                  create_route_from_suggestion(waypoints, route_name))

NextNames ==
    \/ CreateFromSuggestion
    \/ AdvancedDeleteRoute
    \/ RestoreRoute
    \/ DeleteRoute

SpecNames == Init /\ [][NextNames]_vars

\* C28 as claimed: called without a route_name, create_route_from_suggestion
\* makes up a name no stored route has, whatever routes were created and
\* deleted before on the day, so the creation never fails on a name
\* collision.
C28_Claim ==
    (lastReq.op = "create_route_from_suggestion" /\ lastReq.action = "unnamed")
      => lastResp.reason # "IntegrityError"

----------------------------------------------------------------------------
(* The routes table, continued (Spec)                                      *)

\* another route, active, holds the (departure, arrival, name, version) of
\* route id
HeldByActive(id) ==
    \E j \in DOMAIN routes \ {id} : routes[j].is_active /\ SameTuple(routes[j], routes[id])

\* C29: RestoreRouteAPI on a soft-deleted route whose (departure, arrival,
\* name, version) another active route holds is answered with an error and
\* leaves the table as it was, the route inactive and the other active;
\* on a route that is active it changes nothing.
C29_RestoreConflict ==
    [][(lastReq'.op = "RestoreRouteAPI" /\ lastReq'.route_id \in DOMAIN routes)
         => /\ (~routes[lastReq'.route_id].is_active /\ HeldByActive(lastReq'.route_id))
                 => /\ lastResp'.status = "error"
                    /\ routes' = routes
            /\ routes[lastReq'.route_id].is_active
                 => /\ lastResp'.status = "info"
                    /\ routes' = routes]_vars

C29_Witness ==
    /\ lastReq.op = "RestoreRouteAPI"
    /\ lastResp.status = "error"
    /\ lastReq.route_id \in DOMAIN routes
    /\ ~routes[lastReq.route_id].is_active
    /\ HeldByActive(lastReq.route_id)

----------------------------------------------------------------------------
(* Reads of the routes table (SpecRead): GetRoutesAPI and RouteSearchAPI   *)
(* beside the endpoints that save, soft-delete and restore                 *)

\* the answer of a read: the ids of the routes it lists
ReadResp(ids) ==
    [status |-> "success", http |-> 200, reason |-> "routes", route_id |-> 0,
     routes |-> ids]

\* GetRoutesAPI.get: Route.objects.all()
GetRoutesAPI_get == NoWrite(ReadResp(DOMAIN routes))

\* RouteSearchAPI.get: the (departure, arrival) pairs it looks up
SearchPairs(origin, destination) ==
    LET origin_icao == get_icao_code(origin, TRUE)
        destination_icao == get_icao_code(destination, TRUE)
    IN  (IF Truthy(origin_icao) /\ Truthy(destination_icao)
         THEN {<<origin_icao, destination_icao>>} ELSE {})
          \cup (IF Len(origin) = 3 /\ Len(destination) = 3
                THEN {<<origin, destination>>} ELSE {})
          \cup (IF Truthy(origin_icao) /\ Len(destination) = 3
                THEN {<<origin_icao, destination>>} ELSE {})
          \cup (IF Len(origin) = 3 /\ Truthy(destination_icao)
                THEN {<<origin, destination_icao>>} ELSE {})
          \cup (IF Len(origin) = 4 /\ Truthy(destination_icao)
                THEN {<<origin, destination_icao>>} ELSE {})
          \cup (IF Truthy(origin_icao) /\ Len(destination) = 4
                THEN {<<origin_icao, destination>>} ELSE {})

\* Route.objects.filter(departure__iexact=dep, arrival__iexact=arr), over
\* the pairs
Found(pairs) ==
    { j \in DOMAIN routes :
        \E p \in pairs : /\ Upper(routes[j].departure) = Upper(p[1])
                         /\ Upper(routes[j].arrival) = Upper(p[2]) }

\* RouteSearchAPI.get: the pairs, then the pairs reversed
RouteSearchAPI_get(given_origin, given_destination) ==
    LET origin == Upper(Strip(given_origin))
        destination == Upper(Strip(given_destination))
        search_pairs == SearchPairs(origin, destination)
        reverse_search_pairs == {<<p[2], p[1]>> : p \in {q \in search_pairs : q[1] # q[2]}}
    IN  IF origin = <<>> \/ destination = <<>>
        THEN NoWrite(Resp("error", 400, "codes_required", 0))
        ELSE NoWrite(ReadResp(Found(search_pairs) \cup Found(reverse_search_pairs)))

GetRoutes == Handle(IdReq("GetRoutesAPI", "get", 0), GetRoutesAPI_get)

RouteSearch ==
    \E origin \in {THR, OIII, OIMM, <<>>}, destination \in {OIMM, OIII} :
        Handle(IdReq("RouteSearchAPI", "get", 0), RouteSearchAPI_get(origin, destination))

NextRead ==
    \/ SaveRoute
    \/ AdvancedDeleteRoute
    \/ RestoreRoute
    \/ GetRoutes
    \/ RouteSearch

SpecRead == Init /\ [][NextRead]_vars

\* C30 as claimed: a soft-deleted route is treated as deleted: from the soft
\* delete to a restore GetRoutesAPI and RouteSearchAPI do not return it and a
\* save conflict does not report it as the existing route.
C30_Claim ==
    /\ (lastReq.op \in {"GetRoutesAPI", "RouteSearchAPI"} /\ lastResp.status = "success")
         => \A j \in lastResp.routes : routes[j].is_active
    /\ lastResp.status = "conflict" => routes[lastResp.route_id].is_active

====
